---- MODULE Spec2Model ----
(***************************************************************************)
(* Model of the HLS converter in src/pys/jigo.py (class HLSConverter):     *)
(* the pre-flight checks, the per-tier video jobs with the two-stage       *)
(* stream-copy / validate / cleanup / fallback state machine, the audio    *)
(* jobs, the sequential and the multiprocessing.Pool scheduling of the     *)
(* video jobs, and the assembly of the master playlist.                    *)
(*                                                                         *)
(* Durations are in tenths of a second (60 = 6.0 s).                       *)
(***************************************************************************)
EXTENDS Integers, Sequences, FiniteSets, TLC

VARIABLES
    enabled_qualities,  \* self.enabled_qualities: the requested tiers, input order
    force_reencode,     \* self.force_reencode
    parallel,           \* self.parallel
    dry_run,            \* self.dry_run
    best_quality,       \* self.best_quality (--best-quality; the default is balanced)
    cpus,               \* multiprocessing.cpu_count()
    preflight,          \* environment: which pre-flight check of convert() fails, or "ok"
    stream,             \* the video stream object of ffprobe's JSON output
    video_info,         \* self.video_info (the probed video track)
    nAudio,             \* len(self.audio_streams)
    audio_streams,      \* self.audio_streams: the language tag of each audio track
    subtitle_streams,   \* self.subtitle_streams: codec and language tag of each subtitle track
    partial_on_failure, \* environment: a backend run that exits non-zero in this run has
                        \* already written a playlist and segments when it fails
    phase,              \* position of convert()
    can_copy_video,     \* self.can_copy_video
    source_is_h264,     \* self.source_is_h264
    quality_profiles,   \* self.quality_profiles: the ladder, one profile per tier
    enabled_resolutions,\* per requested tier: the width and height _calculate_scale returns
    stream_copy_used,   \* self.stream_copy_used of the converter that runs convert()
    vjob,               \* per tier: position, strategy and result of the video job, with its
                        \* history: the stages it ran (log), the outcome of the copy attempt
                        \* (copy_exit) and whether that attempt left files (copy_left)
    vout,               \* per tier: video_<tier>.m3u8 and video_<tier>_NNN.ts in the output directory
    vpos,               \* index of the next entry of enabled_qualities to be started
    video_success,      \* convert(): video_success
    ajob,               \* per (track, tier): backend calls and result of the audio job
    aout,               \* per (track, tier): audio_<i>_<lang>_<tier>.m3u8 exists
    apos,               \* index of the next (track, tier) pair of convert_all_audio_tracks
    audio_success,      \* convert_all_audio_tracks(): success
    master,             \* master.m3u8: written flag, audio declarations, variant entries
    result,             \* return value of convert(): "none" while running
    sout,               \* per subtitle track: subtitle_<i>_<lang>.vtt is absent, trivial or good
    spos,               \* index of the next subtitle track of convert_subtitles
    converted_subtitles,\* self.converted_subtitles: the indices appended so far
    subtitle_manifest,  \* subtitles.json: written flag and the tracks it declares
    orphans,            \* backend child processes still running after the engine has exited
    disk,               \* the paths that exist in the output directory, by name
    touched,            \* every (job, path) such that the job has written or deleted the path
    pipe,               \* one backend process and its stdout and stderr pipes to the engine
    idet,               \* environment: how the idet run of detect_interlaced ends
    is_interlaced,      \* self.is_interlaced
    hw_accel,           \* self.hw_accel
    encoder             \* one call of get_encoder_settings: its frames and its outcome

vars == <<enabled_qualities, force_reencode, parallel, dry_run, best_quality, cpus,
          preflight, stream, video_info, nAudio, partial_on_failure, phase, can_copy_video, source_is_h264,
          quality_profiles, enabled_resolutions, stream_copy_used, vjob, vout, vpos,
          video_success, ajob, aout, apos, audio_success, master, result,
          audio_streams, subtitle_streams, sout, spos, converted_subtitles,
          subtitle_manifest, orphans, disk, touched, pipe, idet, is_interlaced,
          hw_accel, encoder>>

config == <<enabled_qualities, force_reencode, parallel, dry_run, best_quality, cpus,
            preflight, stream, video_info, nAudio, partial_on_failure,
            audio_streams, subtitle_streams, idet, hw_accel, encoder>>

\* the subtitle phase of convert()
subtitled == <<sout, spos, converted_subtitles, subtitle_manifest>>

\* the process and path level views of a run
side == <<orphans, disk, touched, pipe>>

\* what probe_file leaves on the converter
probed == <<can_copy_video, source_is_h264, quality_profiles, enabled_resolutions,
            is_interlaced>>

(***************************************************************************)
(* Bounds                                                                  *)
(***************************************************************************)
MaxAudio == 1
MaxCpus == 3
MaxSubs == 2

(***************************************************************************)
(* Tiers and requested tier sequences                                      *)
(***************************************************************************)
Tiers == {"high", "medium", "low"}

PriorityOrder == <<"high", "medium", "low">>

Range(s) == {s[i] : i \in 1..Len(s)}

\* main(): explicit_qualities is validated against {high, medium, low} and
\* de-duplicated keeping the first occurrence; the default is all three.
\* Every list of one or two tiers, and the three tiers in three input orders.
TierSeqs == {s \in UNION {[1..n -> Tiers] : n \in 1..2} :
                \A i, j \in 1..Len(s) : i # j => s[i] # s[j]}
            \cup {<<"high", "medium", "low">>, <<"low", "medium", "high">>,
                  <<"medium", "high", "low">>}

(***************************************************************************)
(* Probed video tracks (probe_file fills video_info from ffprobe's JSON)   *)
(***************************************************************************)
\* the keys of a video stream object that probe_file reads with a default
OptionalKeys == {"codec_name", "profile", "level", "pix_fmt", "bit_rate"}

\* a stream object: present is the set of optional keys it carries, and the
\* value of a key that is not present is not looked at
Stream(keys, c, p, l, f, w, h, b) ==
    [present |-> keys, codec_name |-> c, profile |-> p, level |-> l, pix_fmt |-> f,
     width |-> w, height |-> h, bit_rate |-> b]

StreamSamples ==
    { Stream(OptionalKeys, "h264", "High", 41, "yuv420p", 3840, 2160, 20000000),
      Stream(OptionalKeys \ {"bit_rate"}, "h264", "High", 41, "yuvj420p", 1920, 1080, 0),
      Stream(OptionalKeys, "h264", "High 10", 41, "yuv420p10le", 1280, 720, 4000000),
      Stream(OptionalKeys, "hevc", "Main", 120, "yuv420p", 853, 480, 1500000) }

\* stream.get('codec_name') of a stream object without that key
PyNone == "None"

\* probe_file: self.video_info; codec, profile and pix_fmt are ffprobe's
\* strings, bitrate is bit_rate in bit/s, bitrate_known is FALSE where the key
\* is absent ('N/A')
ProbeVideoInfo(s) ==
    [codec   |-> IF "codec_name" \in s.present THEN s.codec_name ELSE PyNone,
     profile |-> IF "profile" \in s.present THEN s.profile ELSE "",
     level   |-> IF "level" \in s.present THEN s.level ELSE 0,
     pix_fmt |-> IF "pix_fmt" \in s.present THEN s.pix_fmt ELSE "yuv420p",
     width   |-> s.width,
     height  |-> s.height,
     bitrate_known |-> "bit_rate" \in s.present,
     bitrate |-> IF "bit_rate" \in s.present THEN s.bit_rate ELSE 0]

VideoSamples == {ProbeVideoInfo(s) : s \in StreamSamples}

\* str.lower() on the letters that occur in codec and profile names
LowerChar(c) ==
    CASE c = "A" -> "a" [] c = "B" -> "b" [] c = "C" -> "c" [] c = "E" -> "e"
      [] c = "H" -> "h" [] c = "I" -> "i" [] c = "M" -> "m" [] c = "P" -> "p"
      [] c = "V" -> "v" [] OTHER -> c

RECURSIVE Lower(_)
Lower(s) == IF Len(s) = 0 THEN ""
            ELSE LowerChar(SubSeq(s, 1, 1)) \o Lower(SubSeq(s, 2, Len(s)))

\* s.startswith(p)
StartsWith(s, p) == Len(p) <= Len(s) /\ SubSeq(s, 1, Len(p)) = p

\* p in s
Contains(s, p) ==
    \E i \in 1..(Len(s) - Len(p) + 1) : SubSeq(s, i, i + Len(p) - 1) = p

\* h264_codecs
H264Codecs == {"h264", "avc", "avc1"}

\* incompatible_profiles
IncompatibleProfiles == {"high 10", "high 4:2:2", "high 4:4:4", "high 10 intra"}

\* the pixel format is not looked at
IsH264Compatible_AnyPixFmt(vi) ==
    /\ \E c \in H264Codecs : StartsWith(Lower(vi.codec), c)
    /\ ~\E prof \in IncompatibleProfiles : Contains(Lower(vi.profile), prof)
    /\ ~(vi.level > 51)

\* _is_h264_compatible
IsH264Compatible(vi) ==
    /\ \E c \in H264Codecs : StartsWith(Lower(vi.codec), c)
    /\ ~\E prof \in IncompatibleProfiles : Contains(Lower(vi.profile), prof)
    /\ ~(vi.level > 51)
    /\ vi.pix_fmt \in {"yuv420p", "yuvj420p"}

\* probe_file: can_copy_video
CanCopyVideo(enabled, h264, forced) ==
    "high" \in Range(enabled) /\ h264 /\ ~forced

(***************************************************************************)
(* Quality ladder: _determine_quality_ladder and _calculate_scale          *)
(* Bitrates are in kbit/s, as the number in front of the 'k' of the        *)
(* profile's strings ('18000k' is 18000).                                  *)
(***************************************************************************)
Profile(h, vb, mr, bs, q, p, adv) ==
    [height |-> h, video_bitrate |-> vb, maxrate |-> mr, bufsize |-> bs,
     crf |-> q, preset |-> p, use_advanced |-> adv]

\* source_height >= 2160
Ladder4K(H, best) ==
    IF best
    THEN [t \in Tiers |->
            CASE t = "high"   -> Profile(H,    18000, 20000, 27000, 18, "slow",   TRUE)
              [] t = "medium" -> Profile(1080, 6000,  6500,  9000,  21, "slow",   TRUE)
              [] t = "low"    -> Profile(480,  1800,  2000,  2700,  23, "medium", TRUE)]
    ELSE [t \in Tiers |->
            CASE t = "high"   -> Profile(H,    16000, 17000, 24000, 20, "medium", FALSE)
              [] t = "medium" -> Profile(1080, 5000,  5350,  7500,  23, "medium", FALSE)
              [] t = "low"    -> Profile(480,  1400,  1500,  2100,  26, "fast",   FALSE)]

\* the high tier of a maximum ladder that carries the balanced CRF at 720p
HighTier_SameCrf(H, best) ==
    IF H >= 1080
    THEN IF best THEN Profile(H, 6000, 6500, 9000, 19, "slow",   TRUE)
                 ELSE Profile(H, 5000, 5350, 7500, 21, "medium", FALSE)
    ELSE IF H >= 720
    THEN IF best THEN Profile(H, 3500, 3800, 5200, 22, "slow",   TRUE)
                 ELSE Profile(H, 2800, 3000, 4200, 22, "medium", FALSE)
    ELSE IF best THEN Profile(H, 1800, 2000, 2700, 21, "medium", TRUE)
                 ELSE Profile(H, 1400, 1500, 2100, 23, "fast",   FALSE)

\* source_height < 2160: high_bitrate, high_maxrate, high_bufsize, high_crf
\* and high_preset by source height, and the use_advanced of the mode
HighTier(H, best) ==
    IF H >= 1080
    THEN IF best THEN Profile(H, 6000, 6500, 9000, 19, "slow",   TRUE)
                 ELSE Profile(H, 5000, 5350, 7500, 21, "medium", FALSE)
    ELSE IF H >= 720
    THEN IF best THEN Profile(H, 3500, 3800, 5200, 20, "slow",   TRUE)
                 ELSE Profile(H, 2800, 3000, 4200, 22, "medium", FALSE)
    ELSE IF best THEN Profile(H, 1800, 2000, 2700, 21, "medium", TRUE)
                 ELSE Profile(H, 1400, 1500, 2100, 23, "fast",   FALSE)

\* source_height < 2160
LadderBelow4K(H, best) ==
    IF best
    THEN [t \in Tiers |->
            CASE t = "high"   -> HighTier(H, best)
              [] t = "medium" -> Profile(720, 3500, 3800, 5200, 21, "slow",   TRUE)
              [] t = "low"    -> Profile(480, 1800, 2000, 2700, 23, "medium", TRUE)]
    ELSE [t \in Tiers |->
            CASE t = "high"   -> HighTier(H, best)
              [] t = "medium" -> Profile(720, 2800, 3000, 4200, 23, "medium", FALSE)
              [] t = "low"    -> Profile(480, 1400, 1500, 2100, 26, "fast",   FALSE)]

\* the ladder of sources below 2160 lines used for every source
QualityLadder_OneRegime(H, best) == LadderBelow4K(H, best)

\* _determine_quality_ladder: self.quality_profiles
QualityLadder(H, best) ==
    IF H >= 2160 THEN Ladder4K(H, best) ELSE LadderBelow4K(H, best)

\* self.quality_profiles before probe_file has run
NoProfiles == [t \in Tiers |-> Profile(0, 0, 0, 0, 0, "none", FALSE)]

RoundDownToEven(n) == IF n % 2 = 0 THEN n ELSE n - 1

\* the clamped branch without the rounding to even numbers
CalculateScale_KeepOdd(W, H, target_height) ==
    IF target_height >= H
    THEN [width |-> W, height |-> H]
    ELSE [width  |-> RoundDownToEven((target_height * W) \div H),
          height |-> RoundDownToEven(target_height)]

\* the target height applied whatever the source height
CalculateScale_AlwaysRescale(W, H, target_height) ==
    [width  |-> RoundDownToEven((target_height * W) \div H),
     height |-> RoundDownToEven(target_height)]

\* _calculate_scale: int(target_height * (source_width / source_height))
\* truncates a double; on the widths and heights drawn in this module the
\* double product truncates to the exact quotient
CalculateScale(W, H, target_height) ==
    IF target_height >= H
    THEN [width |-> RoundDownToEven(W), height |-> RoundDownToEven(H)]
    ELSE [width  |-> RoundDownToEven((target_height * W) \div H),
          height |-> RoundDownToEven(target_height)]

NoScale == [width |-> 0, height |-> 0]

\* _determine_quality_ladder: enabled_resolutions, one entry per requested tier
EnabledResolutions(enabled, vi, profiles) ==
    [t \in Tiers |-> IF t \in Range(enabled)
                     THEN CalculateScale(vi.width, vi.height, profiles[t].height)
                     ELSE NoScale]

\* self.audio_profiles: bitrate in kbit/s
AudioBitrate(best, t) ==
    IF best THEN CASE t = "high" -> 256 [] t = "medium" -> 192 [] t = "low" -> 128
            ELSE CASE t = "high" -> 192 [] t = "medium" -> 128 [] t = "low" -> 96

\* int(s.replace('k', '000')) of a bitrate string of n kbit/s
ToBitsPerSecond(n) == n * 1000

(***************************************************************************)
(* Output of one backend (ffmpeg) run for a video tier: the playlist and   *)
(* the numbered segment files it leaves in the output directory.           *)
(* durations: the #EXTINF entries of the playlist; segs: the picture type  *)
(* of the first frame of each segment file, in sorted file-name order.     *)
(***************************************************************************)
NoOutput == [m3u8 |-> FALSE, durations |-> <<>>, segs |-> <<>>]

GoodOutput == [m3u8 |-> TRUE, durations |-> <<60, 60, 60>>, segs |-> <<"I", "I", "I">>]

PartialOutput == [m3u8 |-> TRUE, durations |-> <<60>>, segs |-> <<"I", "P">>]

\* what a stream-copy run that exits zero may leave behind: the source's own
\* keyframe cadence decides the segment durations and the first frames
CopyOutputs ==
    { GoodOutput,
      [m3u8 |-> TRUE, durations |-> <<60, 60, 60, 60>>, segs |-> <<"I", "I", "I", "P">>],
      [m3u8 |-> TRUE, durations |-> <<60, 60, 60>>,     segs |-> <<"I", "P", "I">>],
      [m3u8 |-> TRUE, durations |-> <<20, 60, 60>>,     segs |-> <<"I", "I", "I">>],
      [m3u8 |-> TRUE, durations |-> <<60, 90>>,         segs |-> <<"I", "I">>],
      [m3u8 |-> TRUE, durations |-> <<60>>,             segs |-> <<"I">>],
      NoOutput }

\* outcome of a copy attempt: exit zero, exit non-zero with one of the three
\* diagnostics _try_stream_copy prints, or an exception raised by Popen
CopyExits == {"ok", "dts", "keyframe", "generic", "exception"}

\* outcome of an encode run (_visually_lossless_encode, _normal_encode)
EncodeExits == {"ok", "fail", "exception"}

\* what a backend run with the given outcome may leave in the output directory
\* (a run that raised never started; one that exits non-zero leaves a partial
\* playlist and segments, or nothing)
CopyOutputsFor(exit, partial) ==
    IF exit = "ok" THEN CopyOutputs
    ELSE IF exit = "exception" THEN {NoOutput}
    ELSE {IF partial THEN PartialOutput ELSE NoOutput}

EncodeOutputsFor(exit, partial) ==
    IF exit = "ok" THEN {GoodOutput}
    ELSE IF exit = "exception" THEN {NoOutput}
    ELSE {IF partial THEN PartialOutput ELSE NoOutput}

(***************************************************************************)
(* Segment validator                                                       *)
(***************************************************************************)
RECURSIVE SumSeq(_)
SumSeq(s) == IF s = <<>> THEN 0 ELSE Head(s) + SumSeq(Tail(s))

MinSeq(s) == CHOOSE x \in Range(s) : \A y \in Range(s) : x <= y

MaxSeq(s) == CHOOSE x \in Range(s) : \A y \in Range(s) : x >= y

MinDuration == 40

MaxDuration == 80

\* the deviation of a sample, dividing by n - 1, instead of a population
StdDevTooHigh_Sample(d) ==
    LET n == Len(d)
        S == SumSeq(d)
        sq == [i \in 1..n |-> (n * d[i] - S) * (n * d[i] - S)]
    IN  SumSeq(sq) > 400 * n * n * (n - 1)

\* std_dev > 2.0 with avg = S/n and variance = sum((d - avg)^2)/n, durations in
\* tenths: sum((n*d - S)^2) / n^3 > 20^2
StdDevTooHigh(d) ==
    LET n == Len(d)
        S == SumSeq(d)
        sq == [i \in 1..n |-> (n * d[i] - S) * (n * d[i] - S)]
    IN  SumSeq(sq) > 400 * n * n * n

KeyframeSample == 3

\* the keyframe check probing every segment file instead of the first three
ValidateKeyframes_AllSegments(out, probeFails) ==
    LET sample == out.segs
    IN  IF sample = <<>> THEN [valid |-> FALSE, reason |-> "No segment files found"]
        ELSE IF probeFails THEN [valid |-> FALSE, reason |-> "Keyframe validation error"]
        ELSE IF \E i \in 1..Len(sample) : sample[i] # "I"
             THEN [valid |-> FALSE, reason |-> "Segment doesn't start with keyframe"]
        ELSE [valid |-> TRUE, reason |-> "All segments start with keyframes"]

\* _validate_keyframes: probes the first three segment files; probeFails is a
\* probe that times out or raises
ValidateKeyframes(out, probeFails) ==
    LET sample == SubSeq(out.segs, 1, IF Len(out.segs) < KeyframeSample
                                      THEN Len(out.segs) ELSE KeyframeSample)
    IN  IF sample = <<>> THEN [valid |-> FALSE, reason |-> "No segment files found"]
        ELSE IF probeFails THEN [valid |-> FALSE, reason |-> "Keyframe validation error"]
        ELSE IF \E i \in 1..Len(sample) : sample[i] # "I"
             THEN [valid |-> FALSE, reason |-> "Segment doesn't start with keyframe"]
        ELSE [valid |-> TRUE, reason |-> "All segments start with keyframes"]

\* the validator without the test of the shortest segment
ValidateHlsSegments_NoMinimum(out, probeFails) ==
    IF ~out.m3u8 THEN [valid |-> FALSE, reason |-> "M3U8 file not found"]
    ELSE IF out.durations = <<>> THEN [valid |-> FALSE, reason |-> "No segments in playlist"]
    ELSE IF Len(out.durations) < 2 THEN [valid |-> FALSE, reason |-> "Too few segments"]
    ELSE IF MaxSeq(out.durations) > MaxDuration
         THEN [valid |-> FALSE, reason |-> "Segment too long"]
    ELSE IF StdDevTooHigh(out.durations)
         THEN [valid |-> FALSE, reason |-> "Inconsistent segments"]
    ELSE LET k == ValidateKeyframes(out, probeFails)
         IN  IF ~k.valid THEN [valid |-> FALSE, reason |-> k.reason]
             ELSE [valid |-> TRUE, reason |-> "Valid"]

\* _validate_hls_segments
ValidateHlsSegments(out, probeFails) ==
    IF ~out.m3u8 THEN [valid |-> FALSE, reason |-> "M3U8 file not found"]
    ELSE IF out.durations = <<>> THEN [valid |-> FALSE, reason |-> "No segments in playlist"]
    ELSE IF Len(out.durations) < 2 THEN [valid |-> FALSE, reason |-> "Too few segments"]
    ELSE IF MinSeq(out.durations) < MinDuration
         THEN [valid |-> FALSE, reason |-> "Segment too short"]
    ELSE IF MaxSeq(out.durations) > MaxDuration
         THEN [valid |-> FALSE, reason |-> "Segment too long"]
    ELSE IF StdDevTooHigh(out.durations)
         THEN [valid |-> FALSE, reason |-> "Inconsistent segments"]
    ELSE LET k == ValidateKeyframes(out, probeFails)
         IN  IF ~k.valid THEN [valid |-> FALSE, reason |-> k.reason]
             ELSE [valid |-> TRUE, reason |-> "Valid"]

(***************************************************************************)
(* The video job: convert_video_quality_variant and _try_stream_copy       *)
(***************************************************************************)
\* use_copy without the test of the tier
UseCopy_AnyTier(profile_name, can_copy) == can_copy

\* convert_video_quality_variant: use_copy
UseCopy(profile_name, can_copy) == profile_name = "high" /\ can_copy

\* a failed copy attempt is validated like a completed one
NextStage_ValidateAfterFailure(stage, ok) ==
    CASE stage = "copy"     -> "validate"
      [] stage = "validate" -> IF ok THEN "done" ELSE "cleanup"
      [] stage = "cleanup"  -> "fallback"
      [] stage = "fallback" -> "done"
      [] stage = "normal"   -> "done"

\* a failed copy attempt ends the job
NextStage_FailFast(stage, ok) ==
    CASE stage = "copy"     -> IF ok THEN "validate" ELSE "done"
      [] stage = "validate" -> IF ok THEN "done" ELSE "cleanup"
      [] stage = "cleanup"  -> "fallback"
      [] stage = "fallback" -> "done"
      [] stage = "normal"   -> "done"

\* the fallback encode is validated like the copy attempt
NextStage_RevalidateFallback(stage, ok) ==
    CASE stage = "copy"     -> IF ok THEN "validate" ELSE "cleanup"
      [] stage = "validate" -> IF ok THEN "done" ELSE "cleanup"
      [] stage = "cleanup"  -> "fallback"
      [] stage = "fallback" -> IF ok THEN "validate" ELSE "done"
      [] stage = "normal"   -> "done"

\* The stage that follows `stage` when it ended with outcome ok (exit code
\* zero, or a valid ValidationResult):
\*   _try_stream_copy returns False on a non-zero exit or an exception without
\*   validating, and the caller then cleans up and runs the fallback encode;
\*   it validates after exit zero and returns True only if valid.
NextStage(stage, ok) ==
    CASE stage = "copy"     -> IF ok THEN "validate" ELSE "cleanup"
      [] stage = "validate" -> IF ok THEN "done" ELSE "cleanup"
      [] stage = "cleanup"  -> "fallback"
      [] stage = "fallback" -> "done"
      [] stage = "normal"   -> "done"

\* a cleanup that unlinks the playlist and forgets the segment files
CleanupFiles_PlaylistOnly(out) == [out EXCEPT !.m3u8 = FALSE, !.durations = <<>>]

\* cleanup of the failed stream copy: unlink <output_name>_*.ts and
\* <output_name>.m3u8 of the tier
CleanupFiles(out) == [m3u8 |-> FALSE, durations |-> <<>>, segs |-> <<>>]

HasFiles(out) == out.m3u8 \/ out.segs # <<>>

\* a backend run writes with -y over what is there: the playlist is replaced
\* when the run writes one, segment files are replaced number by number
WriteOutput(old, new) ==
    [m3u8      |-> old.m3u8 \/ new.m3u8,
     durations |-> IF new.m3u8 THEN new.durations ELSE old.durations,
     segs      |-> new.segs \o SubSeq(old.segs, Len(new.segs) + 1, Len(old.segs))]

\* the flag set as soon as the copy attempt has exited zero
MarkCopyUsed_Always(valid) == TRUE

\* _try_stream_copy: "if is_valid: self.stream_copy_used = True"
MarkCopyUsed(valid) == valid

\* the flag is set on the converter that runs the job: the converter of
\* convert() in the sequential loop, a temporary converter inside a pool
\* worker (_convert_video_wrapper), whose attributes convert() never reads
SeenByConvert(pool) == ~pool

\* reason is the local variable of _try_stream_copy that holds the validator's
\* message until the function returns
NewJob == [pc |-> "pending", strategy |-> "none", starts |-> 0, log |-> <<>>,
           copy_exit |-> "none", copy_left |-> FALSE, reason |-> "", result |-> FALSE]

\* convert(): the pool is used only for a real run of more than one tier
UsePool(par, enabled, dry) == par /\ Len(enabled) > 1 /\ ~dry

Min(a, b) == IF a < b THEN a ELSE b

\* Pool(processes=min(len(self.enabled_qualities), cpu_count()))
Workers(enabled, n) == Min(Len(enabled), n)

\* a sequential loop that calls nothing
Capacity_PoolOnly == IF UsePool(parallel, enabled_qualities, dry_run)
                     THEN Workers(enabled_qualities, cpus) ELSE 0

\* the jobs that can run at a time: the pool's processes, or the one call of
\* the sequential loop
Capacity == IF UsePool(parallel, enabled_qualities, dry_run)
            THEN Workers(enabled_qualities, cpus) ELSE 1

Running == {t \in Tiers : vjob[t].pc \notin {"pending", "done"}}

\* a loop that stops at the first failed job
VideoLoopDone_StopOnFailure(enabled, k, success) == k > Len(enabled) \/ ~success

\* "for profile_name in self.enabled_qualities" / pool.map over the same list:
\* the loop ends when the list is exhausted, whatever the results so far
VideoLoopDone(enabled, k, success) == k > Len(enabled)

\* results collected without waiting for the jobs handed out
JobsReturned_NoWait(running) == TRUE

\* pool.map blocks until every task has returned, and the sequential loop
\* calls convert_video_quality_variant synchronously
JobsReturned(running) == running = {}

\* all(results)
AllResults(enabled, jobs) == \A i \in 1..Len(enabled) : jobs[enabled[i]].result

(***************************************************************************)
(* Audio jobs: convert_all_audio_tracks                                    *)
(***************************************************************************)
Tracks == 0..(MaxAudio - 1)

\* the inner loop running over all three tiers instead of the requested ones
AudioPairs_AllTiers(n, enabled) ==
    [k \in 1..(n * Len(PriorityOrder)) |->
        <<(k - 1) \div Len(PriorityOrder),
          PriorityOrder[((k - 1) % Len(PriorityOrder)) + 1]>>]

\* the (track, tier) pairs in the order of the nested loops
AudioPairs(n, enabled) ==
    [k \in 1..(n * Len(enabled)) |->
        <<(k - 1) \div Len(enabled), enabled[((k - 1) % Len(enabled)) + 1]>>]

\* outcome of one audio backend run and whether it leaves the playlist
AudioOutcomes(partial) == { [ok |-> TRUE,  m3u8 |-> TRUE],
                            [ok |-> FALSE, m3u8 |-> partial] }

\* the audio loops entered in a dry run too
ScheduledAudio_IgnoreDryRun(n, enabled, dry) == AudioPairs(n, enabled)

\* convert_all_audio_tracks returns before its loops when there is no audio
\* stream or in a dry run
ScheduledAudio(n, enabled, dry) == IF dry THEN <<>> ELSE AudioPairs(n, enabled)

(***************************************************************************)
(* Master playlist: create_master_playlist                                 *)
(***************************************************************************)
\* variants emitted in the order of the requested list
VariantTiers_InputOrder(enabled) == enabled

\* "for profile_name in ['high', 'medium', 'low']: if profile_name not in
\* self.enabled_qualities: continue"
VariantTiers(enabled) == SelectSeq(PriorityOrder, LAMBDA t : t \in Range(enabled))

\* a variant emitted for every requested tier
VideoPlaylistExists_Always(outs, t) == TRUE

\* the playlist looked for where it never is
VideoPlaylistExists_Never(outs, t) == FALSE

\* (self.output_dir / video_playlist).exists()
VideoPlaylistExists(outs, t) == outs[t].m3u8

\* the video bandwidth of a variant comes from the source's reported bitrate
\* or from the planned profile
BandwidthSource(t, copy_used, vi) ==
    IF t = "high" /\ copy_used /\ vi.bitrate_known THEN "source" ELSE "profile"

\* video_bw
VideoBandwidth(t, copy_used, vi, profiles) ==
    IF BandwidthSource(t, copy_used, vi) = "source"
    THEN vi.bitrate ELSE ToBitsPerSecond(profiles[t].video_bitrate)

\* total_bandwidth = video_bw + audio_bw
TotalBandwidth(t, copy_used, vi, profiles, best) ==
    VideoBandwidth(t, copy_used, vi, profiles) + ToBitsPerSecond(AudioBitrate(best, t))

\* one EXT-X-STREAM-INF entry per requested tier whose playlist exists
VariantEntries(enabled, outs, copy_used, vi, n, profiles, best) ==
    LET tiers == SelectSeq(VariantTiers(enabled), LAMBDA t : VideoPlaylistExists(outs, t))
    IN  [i \in 1..Len(tiers) |->
            [tier |-> tiers[i],
             bandwidth |-> BandwidthSource(tiers[i], copy_used, vi),
             BANDWIDTH |-> TotalBandwidth(tiers[i], copy_used, vi, profiles, best),
             RESOLUTION |-> CalculateScale(vi.width, vi.height, profiles[tiers[i]].height),
             audio_group |-> n > 0]]

\* one EXT-X-MEDIA line per (track, tier) whose audio playlist exists
AudioDeclarations(enabled, aouts, n) ==
    SelectSeq(AudioPairs(n, enabled), LAMBDA p : aouts[p])

NoMaster == [written |-> FALSE, audio |-> <<>>, variants |-> <<>>]

\* the audio result dropped from the return value
AggregateSuccess_VideoOnly(v, a) == v

\* convert(): "return video_success and audio_success"
AggregateSuccess(v, a) == v /\ a

(***************************************************************************)
(* Initial state: the converter as constructed by main()                   *)
(***************************************************************************)
\* the pre-flight checks of convert() in the order they run: check_ffmpeg,
\* probe_file (ffprobe fails or its output does not parse; no video stream),
\* check_disk_space, check_existing_files (the user declines), detect_hdr
PreflightOutcomes ==
    {"ok", "no_backend", "probe_failed", "no_video", "no_space", "declined", "hdr"}

\* get_encoder_settings has not been called
NotCalled == [pc |-> "idle", depth |-> 0, preset |-> "none", crf |-> 0, name |-> "none"]

\* detect_interlaced: the check is switched off, the idet run reports a
\* progressive or an interlaced source, it runs into its 30 s timeout, or it
\* raises (the backend is gone, its report does not parse)
InterlaceProbes == {"skipped", "progressive", "interlaced", "timeout", "error"}

\* detect_interlaced with a timeout read as an interlaced source
DetectInterlaced_TimeoutIsInterlaced(outcome) == outcome \in {"interlaced", "timeout"}

\* detect_interlaced: True only for a report with more than 30 % interlaced
\* frames; except Exception returns False
DetectInterlaced(outcome) == outcome = "interlaced"

\* the subtitle tracks, numbered as enumerate() numbers them
SubTracks == 0..(MaxSubs - 1)

\* subtitles.json before create_subtitle_manifest has written it
NoManifest == [written |-> FALSE, tracks |-> <<>>]

\* no backend process
IdlePipe == [backend |-> "none", engine |-> "none", out_left |-> 0, err_left |-> 0,
             out_buf |-> 0, err_buf |-> 0]

\* n audio tracks without a language tag: probe_file fills in 'und'
UntaggedTracks(n) == [i \in 1..n |-> [language |-> "und"]]

\* __init__: the attributes of a converter before convert() is called
Constructed ==
    /\ spos = 0
    /\ converted_subtitles = <<>>
    /\ subtitle_manifest = NoManifest
    /\ orphans = {}
    /\ disk = {}
    /\ touched = {}
    /\ pipe = IdlePipe
    /\ phase = "preflight"
    /\ can_copy_video = FALSE
    /\ is_interlaced = FALSE
    /\ source_is_h264 = FALSE
    /\ quality_profiles = NoProfiles
    /\ enabled_resolutions = [t \in Tiers |-> NoScale]
    /\ stream_copy_used = FALSE
    /\ vjob = [t \in Tiers |-> NewJob]
    /\ vpos = 1
    /\ video_success = TRUE
    /\ ajob = [p \in Tracks \X Tiers |-> [calls |-> 0, result |-> FALSE]]
    /\ apos = 1
    /\ audio_success = TRUE
    /\ master = NoMaster
    /\ result = "none"

\* the encoding mode is the default one (balanced); the ladders of both modes
\* are explored by PlannerSpec
Init ==
    /\ enabled_qualities \in TierSeqs
    /\ force_reencode \in BOOLEAN
    /\ parallel \in BOOLEAN
    /\ dry_run \in BOOLEAN
    /\ best_quality = FALSE
    /\ idet = "progressive"
    /\ hw_accel = "None"
    /\ encoder = NotCalled
    /\ cpus \in 1..MaxCpus
    /\ (~parallel => cpus = 1)        \* cpu_count() is read only for the pool
    /\ preflight \in PreflightOutcomes
    /\ stream \in StreamSamples
    /\ video_info = ProbeVideoInfo(stream)
    /\ nAudio \in 0..MaxAudio
    /\ audio_streams = UntaggedTracks(nAudio)
    /\ subtitle_streams = <<>>
    /\ sout = [i \in SubTracks |-> "none"]
    /\ partial_on_failure \in BOOLEAN
    /\ \E stale \in BOOLEAN :        \* HLS files of an earlier run in the output directory
         /\ vout = [t \in Tiers |-> IF stale THEN GoodOutput ELSE NoOutput]
         /\ aout = [p \in Tracks \X Tiers |-> stale]
    /\ Constructed

(***************************************************************************)
(* convert(): pre-flight checks                                            *)
(***************************************************************************)
\* check_existing_files that never deletes
CheckExistingFiles_KeepsFiles(dry) == UNCHANGED <<vout, aout>>

\* check_existing_files: a real run that goes on has deleted every *.m3u8 and
\* *.ts of the output directory, a dry run keeps them
CheckExistingFiles(dry) ==
    IF dry THEN UNCHANGED <<vout, aout>>
    ELSE /\ vout' = [t \in Tiers |-> NoOutput]
         /\ aout' = [p \in Tracks \X Tiers |-> FALSE]

\* _is_h264_compatible calls .lower() on the codec: a video stream without
\* codec_name makes probe_file raise, and main() exits with status 1
ProbeRaises(vi) == vi.codec = PyNone

\* convert() going on although probe_file found no video stream
ChecksPass_WithoutVideo(outcome, vi) ==
    outcome \in {"ok", "no_video"} /\ ~ProbeRaises(vi)

\* every "if not ...: return False" of the pre-flight block is passed
ChecksPass(outcome, vi) == outcome = "ok" /\ ~ProbeRaises(vi)

\* a check makes convert() return False, or probe_file raises; detect_hdr is
\* the only check that runs after check_existing_files has deleted the files
\* of an earlier run
PreflightAbort ==
    /\ phase = "preflight"
    /\ ~ChecksPass(preflight, video_info)
    /\ IF preflight = "hdr" /\ ~ProbeRaises(video_info)
       THEN CheckExistingFiles(dry_run) /\ is_interlaced' = DetectInterlaced(idet)
       ELSE UNCHANGED <<vout, aout, is_interlaced>>
    /\ phase' = "aborted"
    /\ result' = "failure"
    /\ UNCHANGED <<config, subtitled, side, can_copy_video, source_is_h264,
                   quality_profiles, enabled_resolutions, stream_copy_used, vjob, vpos,
                   video_success, ajob, apos, audio_success, master>>

PreflightPass ==
    /\ phase = "preflight"
    /\ ChecksPass(preflight, video_info)
    /\ source_is_h264' = IsH264Compatible(video_info)
    /\ can_copy_video' = CanCopyVideo(enabled_qualities, source_is_h264', force_reencode)
    /\ quality_profiles' = QualityLadder(video_info.height, best_quality)
    /\ enabled_resolutions' = EnabledResolutions(enabled_qualities, video_info,
                                                 quality_profiles')
    /\ CheckExistingFiles(dry_run)
    /\ is_interlaced' = DetectInterlaced(idet)
    /\ phase' = IF subtitle_streams # <<>> THEN "subtitles" ELSE "video"
    /\ UNCHANGED <<config, subtitled, side, stream_copy_used, vjob, vpos, video_success, ajob, apos,
                   audio_success, master, result>>

(***************************************************************************)
(* convert(): PHASE 1, the video jobs                                      *)
(***************************************************************************)
\* the job of tier t ends with result r; the sequential loop folds it into
\* video_success at once, the pool collects the results for all(results)
FinishVideo(t, job, r) ==
    /\ vjob' = [vjob EXCEPT ![t] = [job EXCEPT !.pc = "done", !.result = r]]
    /\ video_success' = IF UsePool(parallel, enabled_qualities, dry_run)
                        THEN video_success ELSE video_success /\ r

\* the job of tier t moves on to stage next, or ends with result r
Advance(t, job, next, r) ==
    IF next = "done" THEN FinishVideo(t, job, r)
    ELSE /\ vjob' = [vjob EXCEPT ![t] = [job EXCEPT !.pc = next]]
         /\ UNCHANGED video_success

\* convert_video_quality_variant is entered for the next tier of
\* enabled_qualities; a dry run returns True from either branch
StartVideo ==
    /\ phase = "video"
    /\ ~VideoLoopDone(enabled_qualities, vpos, video_success)
    /\ Cardinality(Running) < Capacity
    /\ LET t == enabled_qualities[vpos]
           strat == IF UseCopy(t, can_copy_video) THEN "copy" ELSE "normal"
           job == [vjob[t] EXCEPT !.strategy = strat, !.starts = @ + 1]
       IN  Advance(t, job, IF dry_run THEN "done" ELSE strat, TRUE)
    /\ vpos' = vpos + 1
    /\ UNCHANGED <<config, subtitled, side, phase, probed, stream_copy_used, vout, ajob, aout,
                   apos, audio_success, master, result>>

\* _try_stream_copy, Stage 1: the backend run with -c:v copy
CopyAttempt(t) ==
    /\ phase = "video"
    /\ vjob[t].pc = "copy"
    /\ \E exit \in CopyExits : \E out \in CopyOutputsFor(exit, partial_on_failure) :
         /\ vout' = [vout EXCEPT ![t] = WriteOutput(@, out)]
         /\ LET job == [vjob[t] EXCEPT !.log = Append(@, "copy"), !.copy_exit = exit,
                                       !.copy_left = HasFiles(WriteOutput(vout[t], out))]
            IN  Advance(t, job, NextStage("copy", exit = "ok"), FALSE)
    /\ UNCHANGED <<config, subtitled, side, phase, probed, stream_copy_used, vpos, ajob, aout,
                   apos, audio_success, master, result>>

\* _try_stream_copy, after exit zero: _validate_hls_segments
Validate(t) ==
    /\ phase = "video"
    /\ vjob[t].pc = "validate"
    /\ \E probeFails \in BOOLEAN :
         LET v == ValidateHlsSegments(vout[t], probeFails)
             job == [vjob[t] EXCEPT !.log = Append(@, IF v.valid THEN "valid" ELSE "invalid"),
                                    !.reason = IF v.valid THEN "" ELSE v.reason]
         IN  /\ Advance(t, job, NextStage("validate", v.valid), v.valid)
             /\ stream_copy_used' =
                    (stream_copy_used \/
                     (MarkCopyUsed(v.valid)
                      /\ SeenByConvert(UsePool(parallel, enabled_qualities, dry_run))))
    /\ UNCHANGED <<config, subtitled, side, phase, probed, vout, vpos, ajob, aout, apos,
                   audio_success, master, result>>

\* convert_video_quality_variant: "Clean up failed stream copy"
Cleanup(t) ==
    /\ phase = "video"
    /\ vjob[t].pc = "cleanup"
    /\ vout' = [vout EXCEPT ![t] = CleanupFiles(@)]
    /\ Advance(t, [vjob[t] EXCEPT !.log = Append(@, "cleanup"), !.reason = ""],
               NextStage("cleanup", TRUE), FALSE)
    /\ UNCHANGED <<config, subtitled, side, phase, probed, stream_copy_used, vpos, ajob, aout,
                   apos, audio_success, master, result>>

\* _visually_lossless_encode: the exit code alone decides the result
FallbackEncode(t) ==
    /\ phase = "video"
    /\ vjob[t].pc = "fallback"
    /\ \E exit \in EncodeExits : \E out \in EncodeOutputsFor(exit, partial_on_failure) :
         /\ vout' = [vout EXCEPT ![t] = WriteOutput(@, out)]
         /\ Advance(t, [vjob[t] EXCEPT !.log = Append(@, "fallback")],
                    NextStage("fallback", exit = "ok"), exit = "ok")
    /\ UNCHANGED <<config, subtitled, side, phase, probed, stream_copy_used, vpos, ajob, aout,
                   apos, audio_success, master, result>>

\* _normal_encode: one backend run, the exit code alone decides the result
NormalEncode(t) ==
    /\ phase = "video"
    /\ vjob[t].pc = "normal"
    /\ \E exit \in EncodeExits : \E out \in EncodeOutputsFor(exit, partial_on_failure) :
         /\ vout' = [vout EXCEPT ![t] = WriteOutput(@, out)]
         /\ Advance(t, [vjob[t] EXCEPT !.log = Append(@, "encode")],
                    NextStage("normal", exit = "ok"), exit = "ok")
    /\ UNCHANGED <<config, subtitled, side, phase, probed, stream_copy_used, vpos, ajob, aout,
                   apos, audio_success, master, result>>

\* every tier of the list has been handed out and has returned; the pool's
\* results are folded with all(results)
VideoPhaseEnd ==
    /\ phase = "video"
    /\ VideoLoopDone(enabled_qualities, vpos, video_success)
    /\ JobsReturned(Running)
    /\ video_success' = IF UsePool(parallel, enabled_qualities, dry_run)
                        THEN AllResults(enabled_qualities, vjob) ELSE video_success
    /\ phase' = "audio"
    /\ UNCHANGED <<config, subtitled, side, probed, stream_copy_used, vjob, vout, vpos, ajob,
                   aout, apos, audio_success, master, result>>

(***************************************************************************)
(* convert(): PHASE 2, the audio jobs, then the master playlist            *)
(***************************************************************************)
\* convert_audio_track for the next (track, tier) pair
ConvertAudioTrack ==
    /\ phase = "audio"
    /\ apos <= Len(ScheduledAudio(nAudio, enabled_qualities, dry_run))
    /\ LET p == ScheduledAudio(nAudio, enabled_qualities, dry_run)[apos]
       IN  \E o \in AudioOutcomes(partial_on_failure) :
             /\ ajob' = [ajob EXCEPT ![p] = [calls |-> @.calls + 1, result |-> o.ok]]
             /\ aout' = [aout EXCEPT ![p] = @ \/ o.m3u8]
             /\ audio_success' = (audio_success /\ o.ok)
    /\ apos' = apos + 1
    /\ UNCHANGED <<config, subtitled, side, phase, probed, stream_copy_used, vjob, vout, vpos,
                   video_success, master, result>>

\* convert_all_audio_tracks has returned: create_master_playlist, then
\* "return video_success and audio_success"
CreateMasterPlaylist ==
    /\ phase = "audio"
    /\ apos > Len(ScheduledAudio(nAudio, enabled_qualities, dry_run))
    /\ master' = IF dry_run THEN master
                 ELSE [written  |-> TRUE,
                       audio    |-> AudioDeclarations(enabled_qualities, aout, nAudio),
                       variants |-> VariantEntries(enabled_qualities, vout,
                                                   stream_copy_used, video_info, nAudio,
                                                   quality_profiles, best_quality)]
    /\ result' = IF AggregateSuccess(video_success, audio_success)
                 THEN "success" ELSE "failure"
    /\ phase' = "done"
    /\ UNCHANGED <<config, subtitled, side, probed, stream_copy_used, vjob, vout, vpos,
                   video_success, ajob, aout, apos, audio_success>>

Next ==
    \/ PreflightAbort
    \/ PreflightPass
    \/ StartVideo
    \/ \E t \in Tiers : CopyAttempt(t)
    \/ \E t \in Tiers : Validate(t)
    \/ \E t \in Tiers : Cleanup(t)
    \/ \E t \in Tiers : FallbackEncode(t)
    \/ \E t \in Tiers : NormalEncode(t)
    \/ VideoPhaseEnd
    \/ ConvertAudioTrack
    \/ CreateMasterPlaylist

Spec == Init /\ [][Next]_vars

TypeOK ==
    /\ phase \in {"preflight", "subtitles", "video", "audio", "done", "aborted",
                 "interrupted"}
    /\ result \in {"none", "success", "failure", "interrupted"}
    /\ \A t \in Tiers : vjob[t].pc \in {"pending", "copy", "validate", "cleanup",
                                         "fallback", "normal", "done"}

(***************************************************************************)
(* Properties                                                              *)
(***************************************************************************)
Enabled == Range(enabled_qualities)

Count(log, e) == Cardinality({i \in 1..Len(log) : log[i] = e})

\* the copy attempt of the job ended without exit code zero
CopyFailed(job) == job.copy_exit \in {"dts", "keyframe", "generic", "exception"}

\* the copy attempt of the job exited non-zero
CopyExitedNonZero(job) == job.copy_exit \in {"dts", "keyframe", "generic"}

Validated(job) == Count(job.log, "valid") + Count(job.log, "invalid") > 0

\* C1: when the stream-copy attempt fails (the backend exits non-zero or
\* raises), the validator is never invoked for that tier and the job goes
\* straight to the cleanup and from there to the fallback encode.
C1_CopyFailureSkipsValidate ==
    \A t \in Tiers :
        CopyFailed(vjob[t]) =>
            /\ ~Validated(vjob[t])
            /\ vjob[t].pc \in {"cleanup", "fallback", "done"}
            /\ vjob[t].pc = "cleanup"  => vjob[t].log = <<"copy">>
            /\ vjob[t].pc = "fallback" => vjob[t].log = <<"copy", "cleanup">>
            /\ vjob[t].pc = "done"     => vjob[t].log = <<"copy", "cleanup", "fallback">>

\* a copy attempt that raised has been followed by cleanup and fallback
C1_Witness ==
    /\ vjob["high"].copy_exit = "exception"
    /\ vjob["high"].pc = "done"
    /\ vjob["high"].log = <<"copy", "cleanup", "fallback">>

\* C2 as stated: a non-zero exit of the copy attempt ends the high job at
\* once as a failure, without validation and without fallback encode.
C2_Original ==
    \A t \in Tiers :
        CopyExitedNonZero(vjob[t]) =>
            /\ vjob[t].pc = "done"
            /\ ~vjob[t].result
            /\ vjob[t].log = <<"copy">>

\* C2 amended: after a non-zero exit of the copy attempt, whichever diagnostic
\* is reported, no validation is performed, and the job does not end there:
\* it runs the cleanup and then one fallback encode, and it ends only after
\* that fallback encode.
C2_NonZeroExitFallsBack ==
    \A t \in Tiers :
        CopyExitedNonZero(vjob[t]) =>
            /\ Count(vjob[t].log, "valid") = 0
            /\ Count(vjob[t].log, "invalid") = 0
            /\ vjob[t].pc # "validate"
            /\ vjob[t].pc = "done" =>
                   /\ Count(vjob[t].log, "cleanup") = 1
                   /\ Count(vjob[t].log, "fallback") = 1
                   /\ vjob[t].log[Len(vjob[t].log)] = "fallback"

\* a copy attempt that exited non-zero with the keyframe diagnostic, and the
\* job has ended as a success through the fallback encode
C2_Witness ==
    /\ vjob["high"].copy_exit = "keyframe"
    /\ vjob["high"].pc = "done"
    /\ vjob["high"].result

\* C3: at the moment the fallback encode starts, neither the playlist nor any
\* segment file the copy attempt left for the tier exists.
C3_CleanBeforeFallback ==
    \A t \in Tiers : vjob[t].pc = "fallback" => ~HasFiles(vout[t])

\* the fallback encode is about to start after a copy attempt that left files
C3_Witness ==
    /\ vjob["high"].pc = "fallback"
    /\ vjob["high"].copy_left
    /\ ~HasFiles(vout["high"])

\* the stages of the two-stage path, and the stage of the normal encode path
TwoStageEvents == {"copy", "valid", "invalid", "cleanup", "fallback"}

\* C4: a video job takes the two-stage copy path if and only if its tier is
\* high, the compatibility classifier returned true and re-encode was not
\* forced; every other video job takes the normal encode path.
C4_TwoStageIffHighCopySafeNotForced ==
    \A t \in Tiers :
        vjob[t].starts > 0 =>
            /\ vjob[t].strategy = "copy" <=>
                   (t = "high" /\ IsH264Compatible(video_info) /\ ~force_reencode)
            /\ vjob[t].strategy # "copy" => vjob[t].strategy = "normal"
            /\ vjob[t].strategy = "copy"   => Range(vjob[t].log) \subseteq TwoStageEvents
            /\ vjob[t].strategy = "normal" => Range(vjob[t].log) \subseteq {"encode"}
            /\ vjob[t].pc \in {"copy", "validate", "cleanup", "fallback"}
                   => vjob[t].strategy = "copy"
            /\ vjob[t].pc = "normal" => vjob[t].strategy = "normal"

\* in one run the high job went through the copy attempt and the medium job
\* through the normal encode
C4_Witness ==
    /\ vjob["high"].pc = "done"
    /\ vjob["high"].strategy = "copy"
    /\ vjob["high"].log # <<>>
    /\ vjob["medium"].pc = "done"
    /\ vjob["medium"].log = <<"encode">>

\* every validation directly follows the copy attempt
ValidationFollowsCopy(log) ==
    \A i \in 1..Len(log) :
        log[i] \in {"valid", "invalid"} => (i > 1 /\ log[i - 1] = "copy")

BackendRuns(log) == Count(log, "copy") + Count(log, "fallback") + Count(log, "encode")

\* the part of C5 about the copy strategy: at most one copy attempt and one
\* fallback encode, at most one validation, which follows the copy attempt
CopyJobBounded(job) ==
    /\ BackendRuns(job.log) <= 2
    /\ Count(job.log, "copy") <= 1
    /\ Count(job.log, "fallback") <= 1
    /\ Count(job.log, "valid") + Count(job.log, "invalid") <= 1
    /\ ValidationFollowsCopy(job.log)
    /\ job.pc = "done" /\ Count(job.log, "fallback") = 1
           => job.log[Len(job.log)] = "fallback"

AudioRunsAtMostOnce == \A p \in Tracks \X Tiers : ajob[p].calls <= 1

AudioRunsOnceWhenDone ==
    phase = "done" =>
        \A i \in 1..Len(ScheduledAudio(nAudio, enabled_qualities, dry_run)) :
            ajob[ScheduledAudio(nAudio, enabled_qualities, dry_run)[i]].calls = 1

\* C5 as stated: in every run, a copy-strategy job runs the backend at most
\* twice and validates at most once, only after the copy attempt; every normal
\* encode job and every audio job runs the backend exactly once and is never
\* validated.
C5_Original ==
    /\ \A t \in Tiers :
         /\ vjob[t].strategy = "copy" => CopyJobBounded(vjob[t])
         /\ vjob[t].strategy = "normal" /\ vjob[t].pc = "done"
                => vjob[t].log = <<"encode">>
         /\ vjob[t].strategy = "normal" => BackendRuns(vjob[t].log) <= 1
    /\ AudioRunsAtMostOnce
    /\ AudioRunsOnceWhenDone

\* C5 amended: the bounds on the copy-strategy job hold in every run; in every
\* run that is not a dry run, every normal encode job and every audio job runs
\* the backend exactly once and is never retried or validated (a dry run
\* returns from the job before any backend run).
C5_AtMostOneRetry ==
    /\ \A t \in Tiers :
         /\ vjob[t].strategy = "copy" => CopyJobBounded(vjob[t])
         /\ vjob[t].strategy = "normal" /\ vjob[t].pc = "done" /\ ~dry_run
                => vjob[t].log = <<"encode">>
         /\ vjob[t].strategy = "normal" => BackendRuns(vjob[t].log) <= 1
         /\ vjob[t].strategy = "normal" => ~Validated(vjob[t])
    /\ AudioRunsAtMostOnce
    /\ AudioRunsOnceWhenDone

\* a run in which the copy job used both backend runs, a normal encode job
\* and an audio job used their single one
C5_Witness ==
    /\ phase = "done"
    /\ vjob["high"].log = <<"copy", "invalid", "cleanup", "fallback">>
    /\ vjob["low"].log = <<"encode">>
    /\ ajob[<<0, "low">>].calls = 1

\* C6: stream_copy_used is true only if the high tier's copy attempt exited
\* zero and its validation returned valid; a valid validation makes the job a
\* terminal success without cleanup or fallback encode.
C6_CopyUsedOnlyIfValidated ==
    /\ stream_copy_used =>
           /\ vjob["high"].copy_exit = "ok"
           /\ vjob["high"].log = <<"copy", "valid">>
    /\ \A t \in Tiers :
           Count(vjob[t].log, "valid") > 0 =>
               /\ vjob[t].log = <<"copy", "valid">>
               /\ vjob[t].pc = "done"
               /\ vjob[t].result

\* the master playlist was assembled with the flag set
C6_Witness ==
    /\ phase = "done"
    /\ master.written
    /\ stream_copy_used

VideoJobsSucceeded == \A t \in Enabled : vjob[t].result

AudioJobsSucceeded ==
    \A i \in 1..Len(ScheduledAudio(nAudio, enabled_qualities, dry_run)) :
        ajob[ScheduledAudio(nAudio, enabled_qualities, dry_run)[i]].result

\* C7: the result of a run that passed the pre-flight checks is success if and
\* only if every scheduled video job and every scheduled audio job succeeded.
C7_ResultIsConjunction ==
    phase = "done" =>
        (result = "success" <=> (VideoJobsSucceeded /\ AudioJobsSucceeded))

\* a parallel run in which every video job succeeded and an audio job failed
C7_Witness ==
    /\ phase = "done"
    /\ UsePool(parallel, enabled_qualities, dry_run)
    /\ VideoJobsSucceeded
    /\ ~AudioJobsSucceeded
    /\ result = "failure"

SomeJobFailed ==
    \/ \E t \in Enabled : vjob[t].pc = "done" /\ ~vjob[t].result
    \/ \E p \in Tracks \X Tiers : ajob[p].calls > 0 /\ ~ajob[p].result

\* C8: a failed job never cancels or skips a sibling: every scheduled job is
\* started exactly once whatever the outcomes before it, and the master
\* playlist is still assembled afterwards.
C8_FailureDoesNotCancelSiblings ==
    /\ \A t \in Tiers : vjob[t].starts <= 1
    /\ \A t \in Tiers \ Enabled : vjob[t].starts = 0
    /\ phase \in {"audio", "done"} => \A t \in Enabled : vjob[t].starts = 1
    /\ AudioRunsAtMostOnce
    /\ AudioRunsOnceWhenDone
    /\ phase = "done" /\ SomeJobFailed => master.written

\* a sequential run whose first video job failed: the second one and the audio
\* jobs were started, and the master playlist was written
C8_Witness ==
    /\ phase = "done"
    /\ ~parallel
    /\ Len(enabled_qualities) >= 2
    /\ ~vjob[enabled_qualities[1]].result
    /\ vjob[enabled_qualities[2]].starts = 1
    /\ nAudio > 0
    /\ master.written

Rank(t) == CHOOSE i \in 1..3 : PriorityOrder[i] = t

\* C9: the variant entries of the master playlist are in the order high,
\* medium, low, whatever the input order of the requested tiers and the
\* completion order of the jobs.
C9_VariantsInPriorityOrder ==
    master.written =>
        \A i, j \in 1..Len(master.variants) :
            i < j => Rank(master.variants[i].tier) < Rank(master.variants[j].tier)

\* requested as low, high; emitted as high, low, after a parallel run
C9_Witness ==
    /\ enabled_qualities = <<"low", "high">>
    /\ parallel
    /\ master.written
    /\ Len(master.variants) = 2
    /\ master.variants[1].tier = "high"
    /\ master.variants[2].tier = "low"

VariantTierSet == {master.variants[i].tier : i \in 1..Len(master.variants)}

\* C10: a variant entry for tier t is in the master playlist if and only if t
\* is requested and video_<t>.m3u8 exists when the playlist is assembled,
\* whether the aggregate result is success or failure.
C10_VariantIffRequestedAndExists ==
    master.written =>
        /\ \A t \in Tiers : t \in VariantTierSet <=> (t \in Enabled /\ vout[t].m3u8)
        /\ Len(master.variants) = Cardinality(VariantTierSet)

\* a failed run whose master playlist lists one requested tier and leaves out
\* another whose playlist does not exist
C10_Witness ==
    /\ phase = "done"
    /\ result = "failure"
    /\ \E t \in Enabled : t \in VariantTierSet
    /\ \E t \in Enabled : ~vout[t].m3u8 /\ t \notin VariantTierSet

\* the job of the tier ended in success: a validated copy, or a fallback or
\* normal encode that exited zero
JobSucceeded(job) == job.pc = "done" /\ job.result

\* C11: every variant entry of the master playlist refers to a tier whose
\* video job ended in success; a tier whose job ended in failure is never
\* referenced, even if the failed backend left a playlist file behind.
C11_VariantsOnlyForSucceededJobs ==
    master.written =>
        \A i \in 1..Len(master.variants) : JobSucceeded(vjob[master.variants[i].tier])

\* the playlist of the tier was produced by the copy strategy and validated
ProducedByValidatedCopy(job) == job.pc = "done" /\ job.log = <<"copy", "valid">>

\* the planned bitrate of the tier's profile, in bit/s
PlannedBitrate(t) == ToBitsPerSecond(quality_profiles[t].video_bitrate)

\* C12: for every variant of the master playlist, BANDWIDTH is the video
\* bitrate plus the tier's audio bitrate, where the video bitrate is the
\* source's reported bitrate when the tier was produced by the validated copy
\* strategy and the source reports a bitrate, and the planned profile bitrate
\* otherwise.
C12_BandwidthIsVideoPlusAudio ==
    master.written =>
        \A i \in 1..Len(master.variants) :
            LET t == master.variants[i].tier
                video == IF ProducedByValidatedCopy(vjob[t]) /\ video_info.bitrate_known
                         THEN video_info.bitrate ELSE PlannedBitrate(t)
            IN  master.variants[i].BANDWIDTH
                    = video + ToBitsPerSecond(AudioBitrate(best_quality, t))

\* every requested video job has reached its terminal state
VideoJobsTerminal == \A t \in Enabled : vjob[t].pc = "done"

\* every scheduled audio job has run to its end
AudioJobsTerminal ==
    LET sched == ScheduledAudio(nAudio, enabled_qualities, dry_run)
    IN  \A k \in 1..Len(sched) : ajob[sched[k]].calls > 0

\* C13: the phases are strictly ordered, in sequential and in pool runs: no
\* audio job starts before every video job has reached a terminal state, and
\* the master playlist is composed only after every scheduled video and audio
\* job has reached a terminal state.
C13_PhasesStrictlyOrdered ==
    /\ (phase \in {"audio", "done"} \/ \E p \in Tracks \X Tiers : ajob[p].calls > 0)
           => VideoJobsTerminal
    /\ master.written => VideoJobsTerminal /\ AudioJobsTerminal

\* a pool run of three tiers with an audio track has composed its master
\* playlist after the audio jobs
C13_Witness ==
    /\ UsePool(parallel, enabled_qualities, dry_run)
    /\ Len(enabled_qualities) = 3
    /\ nAudio > 0
    /\ master.written
    /\ \A t \in Tiers : ajob[<<0, t>>].calls = 1

\* the number of video jobs the claim expects for tier t
VideoJobsExpected(t) == IF t \in Enabled THEN 1 ELSE 0

\* the (track, tier) pairs of A x T
RequestedPairs == {p \in Tracks \X Tiers : p[1] < nAudio /\ p[2] \in Enabled}

\* C14 as stated: a finished run has created exactly one video job per
\* requested tier and exactly one audio job per (track, tier) pair of A x T,
\* and no job for a tier that was not requested.
C14_Original ==
    phase = "done" =>
        /\ \A t \in Tiers : vjob[t].starts = VideoJobsExpected(t)
        /\ \A p \in Tracks \X Tiers :
               ajob[p].calls = IF p \in RequestedPairs THEN 1 ELSE 0

\* C14 amended: no run creates more than one video job per requested tier,
\* more than one audio job per pair of A x T, or any job for a tier that was
\* not requested; a finished run has created exactly one video job per
\* requested tier, and, unless it is a dry run, exactly one audio job per pair
\* of A x T. A dry run creates no audio job.
C14_OneJobPerTierAndPair ==
    /\ \A t \in Tiers : vjob[t].starts <= VideoJobsExpected(t)
    /\ \A p \in Tracks \X Tiers :
           ajob[p].calls <= (IF p \in RequestedPairs /\ ~dry_run THEN 1 ELSE 0)
    /\ phase = "done" =>
           /\ \A t \in Tiers : vjob[t].starts = VideoJobsExpected(t)
           /\ \A p \in Tracks \X Tiers :
                  ajob[p].calls = IF p \in RequestedPairs /\ ~dry_run THEN 1 ELSE 0

\* a finished run of tiers=[medium] with audio: one video job and one audio
\* job per track, all for the tier medium
C14_Witness ==
    /\ phase = "done"
    /\ ~dry_run
    /\ enabled_qualities = <<"medium">>
    /\ nAudio > 0
    /\ vjob["medium"].starts = 1
    /\ \A i \in 0..(nAudio - 1) : ajob[<<i, "medium">>].calls = 1
    /\ \A t \in {"high", "low"} :
           vjob[t].starts = 0 /\ \A i \in Tracks : ajob[<<i, t>>].calls = 0

\* C15 as stated: when only the tier medium is requested, the master playlist
\* the run produces contains exactly one video variant, the medium one.
C15_Original ==
    (enabled_qualities = <<"medium">> /\ master.written) =>
        /\ Len(master.variants) = 1
        /\ master.variants[1].tier = "medium"

\* C15 amended: when only the tier medium is requested, the master playlist
\* contains no variant for high or low and at most one variant, for medium:
\* exactly one if video_medium.m3u8 exists when the playlist is composed (as
\* it does whenever the medium job succeeded), and none if the medium job
\* failed without leaving that file.
C15_OnlyMediumVariant ==
    (enabled_qualities = <<"medium">> /\ master.written) =>
        /\ VariantTierSet \subseteq {"medium"}
        /\ Len(master.variants) <= 1
        /\ Len(master.variants) = 1 <=> vout["medium"].m3u8
        /\ JobSucceeded(vjob["medium"]) => Len(master.variants) = 1

\* only medium was requested, its job succeeded, and the master playlist
\* lists the medium variant alone
C15_Witness ==
    /\ enabled_qualities = <<"medium">>
    /\ master.written
    /\ JobSucceeded(vjob["medium"])
    /\ Len(master.variants) = 1
    /\ master.variants[1].tier = "medium"

(***************************************************************************)
(* The planner on its own: probe_file on sources of many sizes, in both    *)
(* encoding modes, with all three tiers requested                          *)
(***************************************************************************)
PlannerHeights == {240, 360, 479, 480, 481, 576, 719, 720, 721, 1079, 1080, 1081,
                   1440, 2159, 2160, 2161, 3840, 4320}

PlannerWidths == {426, 853, 854, 1279, 1280, 1920, 1921, 3840, 4096, 7680}

\* a single run without audio, files of an earlier run or pool
PlainRun ==
    /\ force_reencode = FALSE
    /\ parallel = FALSE
    /\ dry_run = FALSE
    /\ cpus = 1
    /\ preflight = "ok"
    /\ nAudio = 0
    /\ audio_streams = <<>>
    /\ subtitle_streams = <<>>
    /\ sout = [i \in SubTracks |-> "none"]
    /\ partial_on_failure = FALSE
    /\ vout = [t \in Tiers |-> NoOutput]
    /\ aout = [p \in Tracks \X Tiers |-> FALSE]
    /\ Constructed

PlannerInit ==
    /\ enabled_qualities = PriorityOrder
    /\ best_quality \in BOOLEAN
    /\ idet = "progressive"
    /\ hw_accel = "None"
    /\ encoder = NotCalled
    /\ \E w \in PlannerWidths, h \in PlannerHeights :
         stream = Stream(OptionalKeys \ {"bit_rate"}, "h264", "High", 41, "yuv420p", w, h, 0)
    /\ video_info = ProbeVideoInfo(stream)
    /\ PlainRun

PlannerSpec == PlannerInit /\ [][PreflightPass]_vars

\* probe_file has run: the ladder and the resolutions are computed
Probed == phase = "video"

IsEven(n) == n % 2 = 0

\* C16: for all source heights, source widths and tiers, the height assigned
\* to the tier's output never exceeds the source height (no upscaling), and
\* the assigned output width and height are both even.
C16_NoUpscaleEvenDimensions ==
    Probed =>
        \A t \in Tiers :
            /\ enabled_resolutions[t].height <= video_info.height
            /\ IsEven(enabled_resolutions[t].width)
            /\ IsEven(enabled_resolutions[t].height)

\* a 853x479 source: every tier is clamped to the source and rounded to 852x478
C16_Witness ==
    /\ Probed
    /\ video_info.width = 853
    /\ video_info.height = 479
    /\ \A t \in Tiers : enabled_resolutions[t] = [width |-> 852, height |-> 478]

\* C17: if the source height H is at least 2160 the planner maps high to H,
\* medium to 1080 and low to 480; if H is below 2160 it maps high to H,
\* medium to 720 and low to 480. For H = 3840 in balanced mode the profiles
\* carry the values of the 4K balanced table.
C17_LadderHeightsAndBalanced4K ==
    Probed =>
        LET H == video_info.height
            q == quality_profiles
        IN  /\ q["high"].height = H
            /\ q["medium"].height = (IF H >= 2160 THEN 1080 ELSE 720)
            /\ q["low"].height = 480
            /\ (H = 3840 /\ ~best_quality) =>
                   /\ q["high"]   = Profile(3840, 16000, 17000, 24000, 20, "medium", FALSE)
                   /\ q["medium"] = Profile(1080, 5000,  5350,  7500,  23, "medium", FALSE)
                   /\ q["low"]    = Profile(480,  1400,  1500,  2100,  26, "fast",   FALSE)

\* the balanced ladder of a source 3840 lines high
C17_Witness ==
    /\ Probed
    /\ video_info.height = 3840
    /\ ~best_quality
    /\ quality_profiles["medium"].height = 1080
    /\ quality_profiles["high"].video_bitrate = 16000

\* the tier's planned target height equals or exceeds the source height
Clamped(t) == quality_profiles[t].height >= video_info.height

\* C18 as stated: if a tier's planned target height equals or exceeds the
\* source height, the tier's output dimensions are exactly the source width
\* and the source height, unmodified.
C18_Original ==
    Probed =>
        \A t \in Tiers :
            Clamped(t) => enabled_resolutions[t] = [width  |-> video_info.width,
                                                    height |-> video_info.height]

\* C18 amended: if a tier's planned target height equals or exceeds the
\* source height, the tier's output dimensions are the source width and the
\* source height, each lowered by one if it is odd, and not altered otherwise.
C18_ClampedToSourceRoundedEven ==
    Probed =>
        \A t \in Tiers :
            Clamped(t) =>
                enabled_resolutions[t] =
                    [width  |-> video_info.width - (video_info.width % 2),
                     height |-> video_info.height - (video_info.height % 2)]

\* a 1279x720 source: high and medium are clamped, and the odd width is
\* lowered to 1278
C18_Witness ==
    /\ Probed
    /\ video_info.width = 1279
    /\ video_info.height = 720
    /\ Clamped("medium")
    /\ enabled_resolutions["medium"] = [width |-> 1278, height |-> 720]

\* x264 presets by speed: a higher number is a faster preset
PresetSpeed(p) == CASE p = "slow" -> 1 [] p = "medium" -> 2 [] p = "fast" -> 3

\* C19: for every source height and every tier, the CRF of maximum mode is
\* strictly lower than that of balanced mode, the preset of maximum mode is
\* never faster than that of balanced mode, and the advanced-tuning flag is
\* set if and only if the mode is maximum.
C19_MaximumModeIsHigherQuality ==
    Probed =>
        \A t \in Tiers :
            LET mine  == quality_profiles[t]
                other == QualityLadder(video_info.height, ~best_quality)[t]
                max   == IF best_quality THEN mine ELSE other
                bal   == IF best_quality THEN other ELSE mine
            IN  /\ max.crf < bal.crf
                /\ PresetSpeed(max.preset) <= PresetSpeed(bal.preset)
                /\ mine.use_advanced <=> best_quality
                /\ max.use_advanced /\ ~bal.use_advanced

\* the maximum ladder of a 720-line source: CRF 20 at preset slow for the
\* high tier, where balanced has CRF 22 at preset medium
C19_Witness ==
    /\ Probed
    /\ best_quality
    /\ video_info.height = 720
    /\ quality_profiles["high"].crf = 20
    /\ quality_profiles["high"].preset = "slow"
    /\ quality_profiles["high"].use_advanced
    /\ QualityLadder(720, FALSE)["high"].crf = 22

(***************************************************************************)
(* The compatibility classifier on its own: probe_file on video tracks     *)
(* with every combination of codec, profile, level and pixel format below  *)
(***************************************************************************)
ClassifierCodecs == {"h264", "H264", "avc1", "hevc", "mpeg4", "vp9", "av1", "mpeg2video"}

ClassifierProfiles == {"High", "Main", "Baseline", "Constrained Baseline", "High 10",
                       "High 10 Intra", "High 4:2:2", "High 4:4:4 Predictive", ""}

ClassifierLevels == {0, 30, 41, 51, 52, 62}

ClassifierPixFmts == {"yuv420p", "yuvj420p", "yuv420p10le", "yuv422p", "yuv444p"}

ClassifierInit ==
    /\ enabled_qualities = PriorityOrder
    /\ best_quality = FALSE
    /\ idet = "progressive"
    /\ hw_accel = "None"
    /\ encoder = NotCalled
    /\ \E c \in ClassifierCodecs, p \in ClassifierProfiles,
          l \in ClassifierLevels, f \in ClassifierPixFmts :
         stream = Stream(OptionalKeys \ {"bit_rate"}, c, p, l, f, 1920, 1080, 0)
    /\ video_info = ProbeVideoInfo(stream)
    /\ PlainRun

ClassifierSpec == ClassifierInit /\ [][PreflightPass]_vars

\* the codec names of the H.264 family, as ffprobe or a container may spell them
H264FamilyNames == {"h264", "H264", "avc", "avc1"}

\* the profiles of more than 8 bits or of other chroma than 4:2:0
HighBitDepthOrChromaProfiles ==
    {"High 10", "High 10 Intra", "High 4:2:2", "High 4:4:4 Predictive"}

\* C20: the classifier answers true if and only if all four conditions hold:
\* the codec is of the H.264 family, the profile is not a high-bit-depth or
\* chroma variant (High 10, High 4:2:2, High 4:4:4), the level is at most 51,
\* and the pixel format is yuv420p or yuvj420p. In particular it answers false
\* whenever the pixel format is not one of these two, whatever the other
\* fields are.
C20_CopySafeIffFourConditions ==
    Probed =>
        /\ source_is_h264 <=>
               /\ video_info.codec \in H264FamilyNames
               /\ video_info.profile \notin HighBitDepthOrChromaProfiles
               /\ video_info.level <= 51
               /\ video_info.pix_fmt \in {"yuv420p", "yuvj420p"}
        /\ video_info.pix_fmt \notin {"yuv420p", "yuvj420p"} => ~source_is_h264

\* an avc1 track at level 5.1 in full-range 4:2:0 is classified as copy safe
C20_Witness ==
    /\ Probed
    /\ video_info.codec = "avc1"
    /\ video_info.profile = "Constrained Baseline"
    /\ video_info.level = 51
    /\ video_info.pix_fmt = "yuvj420p"
    /\ source_is_h264

(***************************************************************************)
(* probe_file on video streams that lack some of the optional keys or      *)
(* carry ffprobe's values for "unknown"                                    *)
(***************************************************************************)
\* ffprobe reports an unknown level as -99
UnknownLevel == 0 - 99

ProbeCodecs == {"h264", "hevc", "unknown"}

ProbeProfiles == {"High", "High 10", "unknown"}

ProbeLevels == {41, 62, UnknownLevel}

ProbePixFmts == {"yuv420p", "yuv422p", "unknown"}

ProbeInit ==
    /\ enabled_qualities = PriorityOrder
    /\ best_quality = FALSE
    /\ idet = "progressive"
    /\ hw_accel = "None"
    /\ encoder = NotCalled
    /\ \E keys \in SUBSET (OptionalKeys \ {"bit_rate"}),
          c \in ProbeCodecs, p \in ProbeProfiles, l \in ProbeLevels, f \in ProbePixFmts :
         stream = Stream(keys, c, p, l, f, 1920, 1080, 0)
    /\ video_info = ProbeVideoInfo(stream)
    /\ PlainRun

ProbeSpec == ProbeInit /\ [][PreflightPass \/ PreflightAbort]_vars

\* one of codec, profile, level and pixel format is absent from the probed
\* metadata, or is reported as unknown
MissingOrUnknown(s) ==
    \/ {"codec_name", "profile", "level", "pix_fmt"} \ s.present # {}
    \/ s.codec_name = "unknown"
    \/ s.profile = "unknown"
    \/ s.level = UnknownLevel
    \/ s.pix_fmt = "unknown"

\* C21: whenever any of the codec, profile, level or pixel-format fields is
\* missing or unknown in the probed metadata of the video track, the
\* compatibility verdict is false, so that the stream-copy path is never
\* entered for such a source.
C21_MissingFieldIsNotSafe ==
    (phase # "preflight" /\ MissingOrUnknown(stream)) =>
        ~source_is_h264 /\ ~can_copy_video

(***************************************************************************)
(* The segment validator on its own: _validate_hls_segments on the output  *)
(* of a copy attempt that exited zero, for every playlist of at most       *)
(* MaxSegments durations drawn from DurationSamples                        *)
(***************************************************************************)
MaxSegments == 4

\* durations in tenths of a second
DurationSamples == {20, 40, 41, 42, 60, 78, 79, 80, 90}

\* n segment files that all start with a keyframe
KeyframeSegs(n) == [i \in 1..n |-> "I"]

\* the segment files next to a playlist of n entries: all starting with a
\* keyframe, the second or the fourth starting with a P frame, or none at all
SegSamples(n) ==
    {KeyframeSegs(n), <<>>}
    \cup (IF n >= 2 THEN {[KeyframeSegs(n) EXCEPT ![2] = "P"]} ELSE {})
    \cup (IF n >= 4 THEN {[KeyframeSegs(n) EXCEPT ![4] = "P"]} ELSE {})

\* what a copy attempt can leave: nothing, or a playlist with these durations
\* next to these segment files
ValidatorOutputs(d, s) == {NoOutput, [m3u8 |-> TRUE, durations |-> d, segs |-> s]}

\* the high tier of a copy-safe source right after its copy attempt exited zero
ValidatorInit ==
    /\ enabled_qualities = <<"high">>
    /\ best_quality = FALSE
    /\ idet = "progressive"
    /\ hw_accel = "None"
    /\ encoder = NotCalled
    /\ force_reencode = FALSE
    /\ parallel = FALSE
    /\ dry_run = FALSE
    /\ cpus = 1
    /\ preflight = "ok"
    /\ stream = Stream(OptionalKeys, "h264", "High", 41, "yuv420p", 1920, 1080, 8000000)
    /\ video_info = ProbeVideoInfo(stream)
    /\ nAudio = 0
    /\ audio_streams = <<>>
    /\ subtitle_streams = <<>>
    /\ sout = [i \in SubTracks |-> "none"]
    /\ spos = 0
    /\ converted_subtitles = <<>>
    /\ subtitle_manifest = NoManifest
    /\ orphans = {}
    /\ disk = {}
    /\ touched = {}
    /\ pipe = IdlePipe
    /\ partial_on_failure = FALSE
    /\ phase = "video"
    /\ source_is_h264 = TRUE
    /\ can_copy_video = TRUE
    /\ is_interlaced = FALSE
    /\ quality_profiles = QualityLadder(video_info.height, best_quality)
    /\ enabled_resolutions = EnabledResolutions(enabled_qualities, video_info,
                                                quality_profiles)
    /\ stream_copy_used = FALSE
    /\ \E n \in 0..MaxSegments : \E d \in [1..n -> DurationSamples] :
       \E s \in SegSamples(n) : \E out \in ValidatorOutputs(d, s) :
         /\ vout = [t \in Tiers |-> IF t = "high" THEN out ELSE NoOutput]
         /\ vjob = [t \in Tiers |->
                      IF t = "high"
                      THEN [NewJob EXCEPT !.pc = "validate", !.strategy = "copy",
                                          !.starts = 1, !.log = <<"copy">>,
                                          !.copy_exit = "ok", !.copy_left = HasFiles(out)]
                      ELSE NewJob]
    /\ aout = [p \in Tracks \X Tiers |-> FALSE]
    /\ vpos = 2
    /\ video_success = TRUE
    /\ ajob = [p \in Tracks \X Tiers |-> [calls |-> 0, result |-> FALSE]]
    /\ apos = 1
    /\ audio_success = TRUE
    /\ master = NoMaster
    /\ result = "none"

ValidatorNext == \E t \in Tiers : Validate(t)

ValidatorSpec == ValidatorInit /\ [][ValidatorNext]_vars

\* the validator has returned for the high tier, with this verdict
Verdict == vjob["high"].log[Len(vjob["high"].log)]

HasVerdict == Len(vjob["high"].log) = 2 /\ Verdict \in {"valid", "invalid"}

SumOfSquares(d) == SumSeq([i \in 1..Len(d) |-> d[i] * d[i]])

\* population standard deviation above 2.0 s: variance = sum(d^2)/n - (S/n)^2
\* above 20^2 square tenths
PopulationStdDevAbove2(d) ==
    Len(d) * SumOfSquares(d) - SumSeq(d) * SumSeq(d) > 400 * Len(d) * Len(d)

\* one of the faults of the playlist that the claim lists
DurationFault(out) ==
    \/ ~out.m3u8
    \/ Len(out.durations) < 2
    \/ \E i \in 1..Len(out.durations) : out.durations[i] < 40
    \/ \E i \in 1..Len(out.durations) : out.durations[i] > 80
    \/ PopulationStdDevAbove2(out.durations)

\* the keyframe check passes: there are segment files, the first three all
\* start with an I frame, and no probe of them failed
KeyframesInOrder(out) ==
    /\ out.segs # <<>>
    /\ \A i \in 1..Len(out.segs) : i <= 3 => out.segs[i] = "I"

KeyframeCheckPassed ==
    /\ KeyframesInOrder(vout["high"])
    /\ vjob["high"].reason # "Keyframe validation error"

\* C22: the validator returns invalid when the playlist is missing, lists no
\* or fewer than two durations, has a minimum below 4.0 s, a maximum above
\* 8.0 s or a population standard deviation above 2.0 s; it returns valid if
\* and only if none of these hold and the keyframe check passes. With
\* keyframes in order, [6.0, 6.0, 6.0] is valid, [2.0, 6.0, 6.0] invalid (too
\* short) and [6.0, 9.0] invalid (too long).
C22_ValidIffNoFaultAndKeyframes ==
    HasVerdict =>
        LET out == vout["high"]
        IN  /\ Verdict = "valid" <=> (~DurationFault(out) /\ KeyframeCheckPassed)
            /\ (out.m3u8 /\ out.durations = <<60, 60, 60>> /\ KeyframeCheckPassed)
                   => Verdict = "valid"
            /\ (out.m3u8 /\ out.durations = <<20, 60, 60>>)
                   => Verdict = "invalid"
                      /\ (KeyframesInOrder(out) =>
                              vjob["high"].reason = "Segment too short")
            /\ (out.m3u8 /\ out.durations = <<60, 90>>)
                   => Verdict = "invalid"
                      /\ (KeyframesInOrder(out) =>
                              vjob["high"].reason = "Segment too long")

\* the playlist [2.0, 6.0, 6.0] with keyframes in order was found too short
C22_Witness ==
    /\ HasVerdict
    /\ vout["high"].durations = <<20, 60, 60>>
    /\ KeyframesInOrder(vout["high"])
    /\ Verdict = "invalid"
    /\ vjob["high"].reason = "Segment too short"

\* C23: given a playlist with the segment durations [4.1, 7.9, 4.2, 7.8], the
\* validator returns invalid, because the standard deviation of the durations
\* exceeds 2.0.
C23_UnevenCadenceIsInvalid ==
    (HasVerdict /\ vout["high"].m3u8 /\ vout["high"].durations = <<41, 79, 42, 78>>)
        => Verdict = "invalid"

(***************************************************************************)
(* convert(): the subtitle phase, which runs between the pre-flight checks *)
(* and the video jobs when the source has subtitle tracks                  *)
(***************************************************************************)
\* convert_subtitles: image_based_codecs
ImageBasedCodecs == {"hdmv_pgs_subtitle", "dvd_subtitle", "dvdsub", "pgssub", "pgs"}

SubtitleCodecs == {"subrip", "hdmv_pgs_subtitle"}

SubtitleStreams ==
    UNION {[1..n -> [codec : SubtitleCodecs, language : {"eng"}]] : n \in 0..MaxSubs}

\* the conversion without the test of the exit status and of the file
Convertible_AnyOutcome(o) == TRUE

\* "subprocess.run(check=True)" did not raise, the file exists and has more
\* than 10 bytes
Convertible(o) == o.exit = "ok" /\ o.file = "good"

\* how one backend run for a subtitle track ends: exit status (or timeout),
\* and the .vtt file it leaves (none, at most 10 bytes, more than 10 bytes)
SubtitleOutcomes ==
    [exit : {"ok"}, file : {"none", "trivial", "good"}]
    \cup [exit : {"error", "timeout"}, file : {"none", "good"}]

\* convert_subtitles: one pass of the loop over self.subtitle_streams
ConvertSubtitle ==
    /\ phase = "subtitles"
    /\ ~dry_run
    /\ spos < Len(subtitle_streams)
    /\ IF Lower(subtitle_streams[spos + 1].codec) \in ImageBasedCodecs
       THEN UNCHANGED <<sout, converted_subtitles>>
       ELSE \E o \in SubtitleOutcomes :
              /\ sout' = [sout EXCEPT ![spos] = o.file]
              /\ converted_subtitles' = IF Convertible(o)
                                        THEN Append(converted_subtitles, spos)
                                        ELSE converted_subtitles
    /\ spos' = spos + 1
    /\ UNCHANGED <<config, probed, side, phase, stream_copy_used, vjob, vout, vpos,
                   video_success, ajob, aout, apos, audio_success, master, result,
                   subtitle_manifest>>

\* convert_subtitles has returned (at once in a dry run): create_subtitle_manifest
CreateSubtitleManifest ==
    /\ phase = "subtitles"
    /\ dry_run \/ spos >= Len(subtitle_streams)
    /\ subtitle_manifest' = IF converted_subtitles = <<>> \/ dry_run
                            THEN subtitle_manifest
                            ELSE [written |-> TRUE, tracks |-> converted_subtitles]
    /\ phase' = "video"
    /\ UNCHANGED <<config, probed, side, stream_copy_used, vjob, vout, vpos,
                   video_success, ajob, aout, apos, audio_success, master, result,
                   sout, spos, converted_subtitles>>

\* the tier lists of the runs with subtitles
FullTierSeqs == {<<"high">>, <<"medium", "high">>}

\* a run on a source with a copy-safe video track, audio and subtitle tracks
FullInit ==
    /\ enabled_qualities \in FullTierSeqs
    /\ force_reencode = FALSE
    /\ parallel \in BOOLEAN
    /\ dry_run \in BOOLEAN
    /\ best_quality = FALSE
    /\ idet = "progressive"
    /\ hw_accel = "None"
    /\ encoder = NotCalled
    /\ cpus = IF parallel THEN 2 ELSE 1
    /\ preflight \in PreflightOutcomes
    /\ stream = Stream(OptionalKeys, "h264", "High", 41, "yuv420p", 1920, 1080, 8000000)
    /\ video_info = ProbeVideoInfo(stream)
    /\ nAudio \in 0..MaxAudio
    /\ audio_streams = UntaggedTracks(nAudio)
    /\ subtitle_streams \in SubtitleStreams
    /\ partial_on_failure \in BOOLEAN
    /\ \E stale \in BOOLEAN :        \* files of an earlier run in the output directory
         /\ vout = [t \in Tiers |-> IF stale THEN GoodOutput ELSE NoOutput]
         /\ aout = [p \in Tracks \X Tiers |-> stale]
         /\ sout = [i \in SubTracks |-> IF stale THEN "good" ELSE "none"]
    /\ Constructed

FullNext == Next \/ ConvertSubtitle \/ CreateSubtitleManifest

FullSpec == FullInit /\ [][FullNext]_vars

\* the pre-flight outcomes of the claim: check_ffmpeg fails, ffprobe fails or
\* its output cannot be parsed, the source has no video stream
PreconditionFailures == {"no_backend", "probe_failed", "no_video"}

\* no video, audio or subtitle job has been started
NoJobStarted ==
    /\ \A t \in Tiers : vjob[t] = NewJob
    /\ vpos = 1
    /\ \A p \in Tracks \X Tiers : ajob[p].calls = 0
    /\ spos = 0
    /\ converted_subtitles = <<>>

\* C24: if the source has no video stream, or the inspection/encoding backend
\* is unavailable or fails to probe, the run aborts with failure before any
\* video, audio or subtitle job is started and without writing a master
\* playlist.
C24_PreconditionFailureAborts ==
    preflight \in PreconditionFailures =>
        /\ phase \in {"preflight", "aborted"}
        /\ phase = "aborted" => result = "failure"
        /\ phase = "preflight" => result = "none"
        /\ NoJobStarted
        /\ master = NoMaster
        /\ subtitle_manifest = NoManifest

\* a source with subtitle tracks and no video stream has been refused
C24_Witness ==
    /\ preflight = "no_video"
    /\ subtitle_streams # <<>>
    /\ phase = "aborted"
    /\ result = "failure"
    /\ NoJobStarted

\* the elements of a sequence
Declared(seq) == {seq[k] : k \in 1..Len(seq)}

\* C26: an audio group declaration for (audio track i, tier q) is included in
\* the master playlist only if q is requested and the playlist
\* audio_<i>_<lang>_<q>.m3u8 exists on disk, and a subtitle track is declared
\* in the subtitle manifest only if its converted output file exists and is
\* larger than the trivial-size threshold of 10 bytes.
C26_DeclaredOnlyIfFileExists ==
    /\ \A p \in Declared(master.audio) :
          /\ p[1] < nAudio
          /\ p[2] \in Enabled
          /\ aout[p]
    /\ \A i \in Declared(subtitle_manifest.tracks) :
          /\ i < Len(subtitle_streams)
          /\ sout[i] = "good"
    /\ \A i \in Declared(converted_subtitles) : sout[i] = "good"

\* both manifests are written, each declares a track and each leaves out one
\* whose file is missing or trivial
C26_Witness ==
    /\ master.written
    /\ Declared(master.audio) # {}
    /\ \E p \in RequestedPairs : ~aout[p] /\ p \notin Declared(master.audio)
    /\ subtitle_manifest.written
    /\ \E i \in SubTracks :
          /\ i < Len(subtitle_streams)
          /\ sout[i] = "trivial"
          /\ i \notin Declared(subtitle_manifest.tracks)

\* no copy, encode, audio or subtitle backend run has been made
NoBackendJob ==
    /\ \A t \in Tiers : vjob[t].log = <<>> /\ vjob[t].copy_exit = "none"
    /\ \A p \in Tracks \X Tiers : ajob[p].calls = 0
    /\ spos = 0
    /\ converted_subtitles = <<>>

\* the segments, playlists and subtitle files of the output directory, with
\* master.m3u8 and subtitles.json
OutputFiles == <<vout, aout, sout, master, subtitle_manifest>>

\* C28: in dry-run mode no copy, encode, audio or subtitle backend job is
\* invoked and no file in the output directory is created or deleted (no
\* segments, playlists, master.m3u8 or subtitles.json; existing files are
\* kept), and the run reports success whenever the pre-flight checks pass.
C28_DryRunTouchesNothing ==
    /\ [](dry_run =>
            /\ NoBackendJob
            /\ master = NoMaster
            /\ subtitle_manifest = NoManifest
            /\ ChecksPass(preflight, video_info) =>
                  /\ phase # "aborted"
                  /\ result # "failure"
                  /\ phase = "done" => result = "success")
    /\ [][dry_run => UNCHANGED OutputFiles]_vars

\* a dry run over a directory that holds the files of an earlier run, for a
\* source with audio and subtitle tracks, has ended with success
C28_Witness ==
    /\ dry_run
    /\ phase = "done"
    /\ result = "success"
    /\ nAudio > 0
    /\ subtitle_streams # <<>>
    /\ \A t \in Tiers : vout[t] = GoodOutput
    /\ \A i \in SubTracks : sout[i] = "good"
    /\ \A t \in Enabled : vjob[t].pc = "done" /\ vjob[t].result

(***************************************************************************)
(* Progress of a run whose backend invocations all terminate               *)
(***************************************************************************)
\* a run on an empty output directory, for a source with at most one audio
\* and one subtitle track; it schedules jobs if the pre-flight checks pass
FairInit ==
    /\ enabled_qualities \in FullTierSeqs
    /\ force_reencode = FALSE
    /\ parallel \in BOOLEAN
    /\ dry_run \in BOOLEAN
    /\ best_quality = FALSE
    /\ idet \in InterlaceProbes
    /\ hw_accel = "None"
    /\ encoder = NotCalled
    /\ cpus = IF parallel THEN 2 ELSE 1
    /\ preflight \in {"ok", "no_backend"}
    /\ stream = Stream(OptionalKeys, "h264", "High", 41, "yuv420p", 1920, 1080, 8000000)
    /\ video_info = ProbeVideoInfo(stream)
    /\ nAudio \in {0, 1}             \* no audio track, or one
    /\ audio_streams = UntaggedTracks(nAudio)
    /\ subtitle_streams \in {s \in SubtitleStreams : Len(s) <= 1}
    /\ partial_on_failure = FALSE
    /\ vout = [t \in Tiers |-> NoOutput]
    /\ aout = [p \in Tracks \X Tiers |-> FALSE]
    /\ sout = [i \in SubTracks |-> "none"]
    /\ Constructed

\* every call the engine makes returns: a backend run ends, with whatever
\* outcome, and the engine then takes its next step
FairSpec == FairInit /\ [][FullNext]_vars /\ WF_vars(FullNext)

\* pending -> running (copy, normal) -> validated, failed or fallback-pending
\* (validate, cleanup, fallback) -> terminal
JobTransitions ==
    { <<"pending", "copy">>, <<"pending", "normal">>, <<"pending", "done">>,
      <<"copy", "validate">>, <<"copy", "cleanup">>,
      <<"validate", "done">>, <<"validate", "cleanup">>,
      <<"cleanup", "fallback">>, <<"fallback", "done">>, <<"normal", "done">> }

AudioScheduled == Declared(ScheduledAudio(nAudio, enabled_qualities, dry_run))

\* every requested video job, every scheduled audio job and every subtitle
\* track has been dealt with, and convert() has its return value
AllJobsTerminal ==
    /\ \A t \in Enabled : vjob[t].pc = "done" /\ vjob[t].result \in BOOLEAN
    /\ \A t \in Tiers \ Enabled : vjob[t].pc = "pending"
    /\ \A p \in AudioScheduled : ajob[p].calls = 1
    /\ dry_run \/ spos = Len(subtitle_streams)
    /\ result \in {"success", "failure"}

\* C27: assuming every backend invocation terminates, every scheduled job
\* eventually reaches a terminal state (success or failure) by following
\* pending -> running -> {validated, failed, fallback-pending} -> terminal, no
\* job stays in running or fallback-pending forever, and the run eventually
\* reaches manifest assembly.
C27_EveryJobTerminates ==
    /\ <>(IF ChecksPass(preflight, video_info) THEN phase = "done" ELSE phase = "aborted")
    /\ [](phase = "done" => AllJobsTerminal)
    /\ [][\A t \in Tiers :
            vjob[t].pc' # vjob[t].pc => <<vjob[t].pc, vjob[t].pc'>> \in JobTransitions]_vars

\* a pooled run whose copy attempt was rejected by the validator has gone
\* through the fallback and has assembled the master playlist
C27_Witness ==
    /\ phase = "done"
    /\ parallel
    /\ master.written
    /\ nAudio > 0
    /\ subtitle_streams # <<>>
    /\ vjob["high"].log = <<"copy", "invalid", "cleanup", "fallback">>
    /\ \A t \in Enabled : vjob[t].pc = "done"

(***************************************************************************)
(* The paths of the output directory: which job writes or deletes which    *)
(* file name                                                                *)
(***************************************************************************)
MaxTracks == 2
MaxSegmentIndex == 1

\* language tags as ffprobe reports them; the last three are sanitised to the
\* same string, and "und_high" ends like the name of a tier
LanguageTags == {"und_high", "pt BR", "pt/BR", "pt_BR"}

\* the characters of \w (letters, digits, underscore) and the hyphen
WordChars == {"a", "b", "d", "e", "g", "h", "i", "n", "p", "t", "u", "B", "R",
              "0", "1", "2", "_", "-"}

\* re.sub(r'[^\w\-]', '_', language), character by character
RECURSIVE SafeLang(_)
SafeLang(s) ==
    IF Len(s) = 0 THEN ""
    ELSE (IF SubSeq(s, 1, 1) \in WordChars THEN SubSeq(s, 1, 1) ELSE "_")
         \o SafeLang(SubSeq(s, 2, Len(s)))

\* "%03d" for a segment number
Pad3(k) == IF k < 10 THEN "00" \o ToString(k)
           ELSE IF k < 100 THEN "0" \o ToString(k) ELSE ToString(k)

\* s.endswith(p)
EndsWith(s, p) == Len(p) <= Len(s) /\ SubSeq(s, Len(s) - Len(p) + 1, Len(s)) = p

\* the playlist and the segments 0..MaxSegmentIndex that a backend run with
\* this output name writes
HlsPaths(output_name) ==
    {output_name \o ".m3u8"}
    \cup {output_name \o "_" \o Pad3(k) \o ".ts" : k \in 0..MaxSegmentIndex}

\* convert_video_quality_variant: output_name
VideoName(t) == "video_" \o t

\* an audio output name without the index of the track
AudioName_NoIndex(i, stream_, q) ==
    "audio_" \o SafeLang(stream_.language) \o "_" \o q

\* convert_audio_track: output_name
AudioName(i, stream_, q) ==
    "audio_" \o ToString(i) \o "_" \o SafeLang(stream_.language) \o "_" \o q

\* convert_subtitles: output_vtt
SubtitlePath(i, stream_) ==
    "subtitle_" \o ToString(i) \o "_" \o SafeLang(stream_.language) \o ".vtt"

\* a cleanup whose glob is "*.ts"
CleanupPaths_EverySegment(output_name, dir) ==
    {p \in dir : EndsWith(p, ".ts") \/ p = output_name \o ".m3u8"}

\* the cleanup of a failed copy: glob "<output_name>_*.ts" over the directory,
\* and the playlist if it exists
CleanupPaths(output_name, dir) ==
    {p \in dir : \/ StartsWith(p, output_name \o "_") /\ EndsWith(p, ".ts")
                 \/ p = output_name \o ".m3u8"}

\* the job writes these paths
Writes(job, paths) ==
    /\ disk' = disk \cup paths
    /\ touched' = touched \cup {<<job, p>> : p \in paths}

\* the job deletes these paths
Deletes(job, paths) ==
    /\ disk' = disk \ paths
    /\ touched' = touched \cup {<<job, p>> : p \in paths}

LanguageSeqs(codecs) ==
    UNION {[1..n -> [codec : codecs, language : LanguageTags]] : n \in 0..MaxTracks}

\* a real run on an empty output directory, any language tags
PathInit ==
    /\ enabled_qualities \in FullTierSeqs \cup {PriorityOrder}
    /\ force_reencode = FALSE
    /\ parallel = TRUE
    /\ dry_run = FALSE
    /\ best_quality = FALSE
    /\ idet = "progressive"
    /\ hw_accel = "None"
    /\ encoder = NotCalled
    /\ cpus = 2
    /\ preflight = "ok"
    /\ stream = Stream(OptionalKeys, "h264", "High", 41, "yuv420p", 1920, 1080, 8000000)
    /\ video_info = ProbeVideoInfo(stream)
    /\ audio_streams \in LanguageSeqs({"aac"})
    /\ nAudio = Len(audio_streams)
    /\ subtitle_streams \in LanguageSeqs({"subrip"})
    /\ partial_on_failure = FALSE
    /\ vout = [t \in Tiers |-> NoOutput]
    /\ aout = [p \in Tracks \X Tiers |-> FALSE]
    /\ sout = [i \in SubTracks |-> "none"]
    /\ source_is_h264 = TRUE
    /\ can_copy_video = TRUE
    /\ is_interlaced = FALSE
    /\ quality_profiles = QualityLadder(video_info.height, best_quality)
    /\ enabled_resolutions = EnabledResolutions(enabled_qualities, video_info,
                                                quality_profiles)
    /\ phase = "subtitles"
    /\ stream_copy_used = FALSE
    /\ vjob = [t \in Tiers |-> NewJob]
    /\ vpos = 1
    /\ video_success = TRUE
    /\ ajob = [p \in Tracks \X Tiers |-> [calls |-> 0, result |-> FALSE]]
    /\ apos = 1
    /\ audio_success = TRUE
    /\ master = NoMaster
    /\ result = "none"
    /\ spos = 0
    /\ converted_subtitles = <<>>
    /\ subtitle_manifest = NoManifest
    /\ orphans = {}
    /\ disk = {}
    /\ touched = {}
    /\ pipe = IdlePipe

\* what the path-level steps leave alone
pathFrame == <<config, probed, stream_copy_used, vout, vpos, video_success, ajob, aout,
               audio_success, master, result, sout, converted_subtitles,
               subtitle_manifest, orphans, pipe>>

\* convert_subtitles: the backend run for the next subtitle track writes its
\* .vtt file; after the last one the video phase begins
SubtitleJobWrites ==
    /\ phase = "subtitles"
    /\ IF spos < Len(subtitle_streams)
       THEN /\ Writes(<<"subtitle", spos>>,
                      {SubtitlePath(spos, subtitle_streams[spos + 1])})
            /\ spos' = spos + 1
            /\ UNCHANGED phase
       ELSE /\ phase' = "video"
            /\ UNCHANGED <<spos, disk, touched>>
    /\ UNCHANGED <<pathFrame, vjob, apos>>

\* the copy attempt or the normal encode of a tier writes its playlist and
\* segments; the jobs of the pool run in any order
VideoJobWrites(t) ==
    /\ phase = "video"
    /\ t \in Enabled
    /\ vjob[t].pc = "pending"
    /\ Writes(<<"video", t>>, HlsPaths(VideoName(t)))
    /\ \E ok \in BOOLEAN :
         vjob' = [vjob EXCEPT ![t].pc = IF UseCopy(t, can_copy_video) /\ ~ok
                                        THEN "cleanup" ELSE "done",
                              ![t].log = Append(@, IF UseCopy(t, can_copy_video)
                                                   THEN "copy" ELSE "normal")]
    /\ UNCHANGED <<pathFrame, phase, spos, apos>>

\* the cleanup after a failed copy
VideoJobCleans(t) ==
    /\ phase = "video"
    /\ vjob[t].pc = "cleanup"
    /\ Deletes(<<"video", t>>, CleanupPaths(VideoName(t), disk))
    /\ vjob' = [vjob EXCEPT ![t].pc = "fallback", ![t].log = Append(@, "cleanup")]
    /\ UNCHANGED <<pathFrame, phase, spos, apos>>

\* the fallback encode writes the files of the tier again
VideoJobRewrites(t) ==
    /\ phase = "video"
    /\ vjob[t].pc = "fallback"
    /\ Writes(<<"video", t>>, HlsPaths(VideoName(t)))
    /\ vjob' = [vjob EXCEPT ![t].pc = "done", ![t].log = Append(@, "fallback")]
    /\ UNCHANGED <<pathFrame, phase, spos, apos>>

\* convert_all_audio_tracks: the backend run for the next (track, tier) pair
\* writes its playlist and segments; after the last one the run is over
AudioJobWrites ==
    /\ \/ phase = "audio"
       \/ phase = "video" /\ \A t \in Enabled : vjob[t].pc = "done"
    /\ LET pairs == AudioPairs(nAudio, enabled_qualities)
       IN  IF apos <= Len(pairs)
           THEN /\ Writes(<<"audio", pairs[apos][1], pairs[apos][2]>>,
                          HlsPaths(AudioName(pairs[apos][1],
                                             audio_streams[pairs[apos][1] + 1],
                                             pairs[apos][2])))
                /\ apos' = apos + 1
                /\ phase' = "audio"
           ELSE /\ phase' = "done"
                /\ phase # "done"
                /\ UNCHANGED <<apos, disk, touched>>
    /\ UNCHANGED <<pathFrame, vjob, spos>>

PathNext ==
    \/ SubtitleJobWrites
    \/ \E t \in Tiers : VideoJobWrites(t)
    \/ \E t \in Tiers : VideoJobCleans(t)
    \/ \E t \in Tiers : VideoJobRewrites(t)
    \/ AudioJobWrites

PathSpec == PathInit /\ [][PathNext]_vars

\* C25: no two distinct jobs (video tiers, audio track x tier pairs, subtitle
\* tracks) ever write to or delete the same output path, for any tier set, any
\* number of audio and subtitle tracks and any language tags (including tags
\* that sanitise to the same string), also when video jobs run in parallel.
C25_NoSharedOutputPath ==
    \A a \in touched : \A b \in touched : a[2] = b[2] => a[1] = b[1]

\* two audio tracks and two subtitle tracks whose tags sanitise to the same
\* string have been converted next to a high tier that was cleaned up
C25_Witness ==
    /\ phase = "done"
    /\ Len(audio_streams) = 2
    /\ audio_streams[1].language # audio_streams[2].language
    /\ SafeLang(audio_streams[1].language) = SafeLang(audio_streams[2].language)
    /\ Len(subtitle_streams) = 2
    /\ SafeLang(subtitle_streams[1].language) = SafeLang(subtitle_streams[2].language)
    /\ vjob["high"].log = <<"copy", "cleanup", "fallback">>
    /\ \E p \in touched : p[1] = <<"video", "high">>
    /\ \A i \in {0, 1} : \A q \in Enabled : \E p \in touched : p[1] = <<"audio", i, q>>
    /\ \A i \in {0, 1} : \E p \in touched : p[1] = <<"subtitle", i>>

(***************************************************************************)
(* A top-level interrupt: main() catches KeyboardInterrupt around          *)
(* convert(), prints, and exits with status 130                            *)
(***************************************************************************)
\* the backend children of the video jobs that are running: the Popen of a
\* copy attempt, a fallback encode or a normal encode
BackendChildren == {t \in Tiers : vjob[t].pc \in {"copy", "fallback", "normal"}}

\* the children that outlive the engine. Nothing in main() or convert()
\* terminates a Popen child: a child ends with the engine only if the signal
\* was delivered to it as well (Ctrl-C in a terminal reaches the whole
\* foreground process group, "kill -INT <pid>" reaches the engine alone).
\* The audio and subtitle children are run by subprocess.run, which kills its
\* child when an exception passes through it.
Survivors(children) == SUBSET children

\* KeyboardInterrupt while convert() is in the video or the audio phase
Interrupt ==
    /\ phase \in {"video", "audio"}
    /\ orphans' \in Survivors(BackendChildren)
    /\ phase' = "interrupted"
    /\ result' = "interrupted"
    /\ UNCHANGED <<config, probed, subtitled, disk, touched, pipe, stream_copy_used,
                   vjob, vout, vpos, video_success, ajob, aout, apos, audio_success,
                   master>>

\* a real run on an empty output directory, with or without the pool
InterruptInit ==
    /\ enabled_qualities \in FullTierSeqs
    /\ force_reencode = FALSE
    /\ parallel \in BOOLEAN
    /\ dry_run = FALSE
    /\ best_quality = FALSE
    /\ idet = "progressive"
    /\ hw_accel = "None"
    /\ encoder = NotCalled
    /\ cpus = IF parallel THEN 2 ELSE 1
    /\ preflight \in {"ok", "no_backend"}
    /\ stream = Stream(OptionalKeys, "h264", "High", 41, "yuv420p", 1920, 1080, 8000000)
    /\ video_info = ProbeVideoInfo(stream)
    /\ nAudio \in 0..MaxAudio
    /\ audio_streams = UntaggedTracks(nAudio)
    /\ subtitle_streams = <<>>
    /\ partial_on_failure = FALSE
    /\ vout = [t \in Tiers |-> NoOutput]
    /\ aout = [p \in Tracks \X Tiers |-> FALSE]
    /\ sout = [i \in SubTracks |-> "none"]
    /\ Constructed

InterruptNext == Next \/ Interrupt

InterruptSpec == InterruptInit /\ [][InterruptNext]_vars

\* C29: on a top-level interrupt received while jobs are running, every
\* outstanding backend child process (including those started by parallel
\* workers) is terminated before the engine exits, and the artifacts of jobs
\* that had already completed and validated are left unmodified.
C29_InterruptTerminatesChildren ==
    phase = "interrupted" => orphans = {}

(***************************************************************************)
(* One backend run of a video job and its two pipes: Popen(stdout=PIPE,    *)
(* stderr=PIPE), "for line in process.stderr", then process.wait()         *)
(***************************************************************************)
\* what a pipe holds before a write to it blocks, and the most a backend
\* writes to one stream, in the same unit
PipeCapacity == 2
MaxOutput == 4

Streams == {"out", "err"}

Left(p, fd) == IF fd = "out" THEN p.out_left ELSE p.err_left

Buffered(p, fd) == IF fd = "out" THEN p.out_buf ELSE p.err_buf

\* one unit moves from the backend into the pipe
Written(p, fd) ==
    IF fd = "out" THEN [p EXCEPT !.out_left = @ - 1, !.out_buf = @ + 1]
    ELSE [p EXCEPT !.err_left = @ - 1, !.err_buf = @ + 1]

\* the high tier's copy attempt has just been started
PipeInit ==
    /\ enabled_qualities = <<"high">>
    /\ best_quality = FALSE
    /\ idet = "progressive"
    /\ hw_accel = "None"
    /\ encoder = NotCalled
    /\ force_reencode = FALSE
    /\ parallel = FALSE
    /\ dry_run = FALSE
    /\ cpus = 1
    /\ preflight = "ok"
    /\ stream = Stream(OptionalKeys, "h264", "High", 41, "yuv420p", 1920, 1080, 8000000)
    /\ video_info = ProbeVideoInfo(stream)
    /\ nAudio = 0
    /\ audio_streams = <<>>
    /\ subtitle_streams = <<>>
    /\ sout = [i \in SubTracks |-> "none"]
    /\ spos = 0
    /\ converted_subtitles = <<>>
    /\ subtitle_manifest = NoManifest
    /\ orphans = {}
    /\ disk = {}
    /\ touched = {}
    /\ partial_on_failure = FALSE
    /\ phase = "video"
    /\ source_is_h264 = TRUE
    /\ can_copy_video = TRUE
    /\ is_interlaced = FALSE
    /\ quality_profiles = QualityLadder(video_info.height, best_quality)
    /\ enabled_resolutions = EnabledResolutions(enabled_qualities, video_info,
                                                quality_profiles)
    /\ stream_copy_used = FALSE
    /\ vout = [t \in Tiers |-> NoOutput]
    /\ vjob = [t \in Tiers |->
                 IF t = "high"
                 THEN [NewJob EXCEPT !.pc = "copy", !.strategy = "copy", !.starts = 1]
                 ELSE NewJob]
    /\ aout = [p \in Tracks \X Tiers |-> FALSE]
    /\ vpos = 2
    /\ video_success = TRUE
    /\ ajob = [p \in Tracks \X Tiers |-> [calls |-> 0, result |-> FALSE]]
    /\ apos = 1
    /\ audio_success = TRUE
    /\ master = NoMaster
    /\ result = "none"
    /\ \E o \in 0..MaxOutput, e \in 0..MaxOutput :
         pipe = [backend |-> "running", engine |-> "reading", out_left |-> o,
                 err_left |-> e, out_buf |-> 0, err_buf |-> 0]

\* what the steps of the backend and of the engine's read loop leave alone
pipeFrame == <<config, probed, subtitled, orphans, disk, touched, phase,
               stream_copy_used, vjob, vout, vpos, video_success, ajob, aout,
               apos, audio_success, master, result>>

\* the backend writes one unit to a stream, or blocks in the write when the
\* pipe of that stream is full
BackendWrites(fd) ==
    /\ pipe.backend = "running"
    /\ Left(pipe, fd) > 0
    /\ pipe' = IF Buffered(pipe, fd) < PipeCapacity THEN Written(pipe, fd)
               ELSE [pipe EXCEPT !.backend = "blocked_" \o fd]
    /\ UNCHANGED pipeFrame

\* a blocked write goes through once the pipe has room
BackendResumes(fd) ==
    /\ pipe.backend = "blocked_" \o fd
    /\ Buffered(pipe, fd) < PipeCapacity
    /\ pipe' = [Written(pipe, fd) EXCEPT !.backend = "running"]
    /\ UNCHANGED pipeFrame

\* the backend has written everything and exits, closing its ends
BackendExits ==
    /\ pipe.backend = "running"
    /\ pipe.out_left = 0
    /\ pipe.err_left = 0
    /\ pipe' = [pipe EXCEPT !.backend = "exited"]
    /\ UNCHANGED pipeFrame

\* "for line in process.stderr": the engine takes one unit from stderr
EngineReadsStderr ==
    /\ pipe.engine = "reading"
    /\ pipe.err_buf > 0
    /\ pipe' = [pipe EXCEPT !.err_buf = @ - 1]
    /\ UNCHANGED pipeFrame

\* the loop ends at end of file, i.e. when stderr is empty and closed
EngineSeesEof ==
    /\ pipe.engine = "reading"
    /\ pipe.err_buf = 0
    /\ pipe.backend = "exited"
    /\ pipe' = [pipe EXCEPT !.engine = "waiting"]
    /\ UNCHANGED pipeFrame

\* process.wait() returns for a backend that has exited
EngineWaitReturns ==
    /\ pipe.engine = "waiting"
    /\ pipe.backend = "exited"
    /\ pipe' = [pipe EXCEPT !.engine = "returned"]
    /\ UNCHANGED pipeFrame

PipeNext ==
    \/ \E fd \in Streams : BackendWrites(fd)
    \/ \E fd \in Streams : BackendResumes(fd)
    \/ BackendExits
    \/ EngineReadsStderr
    \/ EngineSeesEof
    \/ EngineWaitReturns

\* the backend and the engine both run whenever they can
PipeSpec == PipeInit /\ [][PipeNext]_vars /\ WF_vars(PipeNext)

\* C30: while a copy or encode backend process runs, the engine consumes both
\* its stdout and its stderr, so the backend can never block forever on a full
\* output pipe while the engine waits for it: every backend run that
\* terminates with unbounded pipes also terminates under the engine's pipe
\* handling.
C30_BackendRunTerminates ==
    <>(pipe.backend = "exited" /\ pipe.engine = "returned")

(***************************************************************************)
(* The keyframe sample and the spread of the durations                     *)
(***************************************************************************)
\* the reasons that only _validate_keyframes gives
KeyframeReasons ==
    {"No segment files found", "Segment doesn't start with keyframe",
     "Keyframe validation error"}

\* the segment files the keyframe check probes: the first three in name order
ProbedSegments(out) ==
    {i \in 1..Len(out.segs) : i <= KeyframeSample}

\* C31: keyframe sampling runs only after all duration checks passed; it
\* probes at most the first three segment files in sorted name order and
\* returns invalid with a keyframe-specific reason if a probed segment does
\* not start with an I frame or if no segment file exists. A segment beyond
\* the third that starts with another frame type never fails validation.
C31_KeyframeSampleIsFirstThree ==
    HasVerdict =>
        LET out == vout["high"]
            r == vjob["high"].reason
        IN  /\ r \in KeyframeReasons => ~DurationFault(out)
            /\ Cardinality(ProbedSegments(out)) <= 3
            /\ (~DurationFault(out) /\ out.segs = <<>>)
                   => Verdict = "invalid" /\ r = "No segment files found"
            /\ (~DurationFault(out)
                  /\ \E i \in ProbedSegments(out) : out.segs[i] # "I")
                   => Verdict = "invalid" /\ r \in KeyframeReasons
            /\ (~DurationFault(out) /\ out.segs # <<>>
                  /\ r # "Keyframe validation error"
                  /\ \A i \in ProbedSegments(out) : out.segs[i] = "I")
                   => Verdict = "valid"
            /\ r = "Segment doesn't start with keyframe"
                   => \E i \in ProbedSegments(out) : out.segs[i] # "I"

\* a copy whose fourth segment starts with a P frame was found valid
C31_Witness ==
    /\ HasVerdict
    /\ Len(vout["high"].segs) >= 4
    /\ vout["high"].segs[4] = "P"
    /\ ~DurationFault(vout["high"])
    /\ Verdict = "valid"

\* every duration of the playlist lies within 4.0 s and 8.0 s
WithinBounds(d) ==
    \A i \in 1..Len(d) : MinDuration <= d[i] /\ d[i] <= MaxDuration

\* C34: whenever the durations pass the minimum test (4.0 s or more) and the
\* maximum test (8.0 s or less), their population standard deviation is 2.0
\* or less, so the validator never returns "Inconsistent segments" and the
\* keyframe check alone decides validity.
C34_SpreadTestNeverFails ==
    HasVerdict =>
        LET out == vout["high"]
        IN  /\ vjob["high"].reason # "Inconsistent segments"
            /\ (out.m3u8 /\ Len(out.durations) >= 2 /\ WithinBounds(out.durations))
                   => /\ ~PopulationStdDevAbove2(out.durations)
                      /\ ~StdDevTooHigh(out.durations)
                      /\ Verdict = "valid" <=> KeyframeCheckPassed

\* the playlist [4.0, 8.0], whose deviation is exactly 2.0, was found valid
C34_Witness ==
    /\ HasVerdict
    /\ vout["high"].durations = <<40, 80>>
    /\ KeyframeCheckPassed
    /\ Verdict = "valid"

(***************************************************************************)
(* The lightweight probes: idet and the keyframe sample                    *)
(***************************************************************************)
\* the idet run timed out or raised
InterlaceProbeFailed == idet \in {"timeout", "error"}

\* the keyframe probe of the high job timed out or raised
KeyframeProbeFailed == vjob["high"].reason = "Keyframe validation error"

\* C32: a lightweight probe that times out or errors never stalls or crashes
\* the pipeline: a keyframe probe that times out or raises makes validation
\* return invalid, so the high job goes on to cleanup and fallback, and an
\* interlace probe that times out or fails makes the source be treated as
\* progressive and the run continue.
C32_ProbeFailureNeverStalls ==
    /\ [](InterlaceProbeFailed => ~is_interlaced)
    /\ ChecksPass(preflight, video_info) => <>(phase = "done")
    /\ [](KeyframeProbeFailed =>
              /\ vjob["high"].log = <<"copy", "invalid">>
              /\ vjob["high"].pc = "cleanup")
    /\ [][LET job == vjob["high"]
         IN  /\ (job.pc = "cleanup" /\ job' # job)
                    => job'.pc = "fallback" /\ job'.log = Append(job.log, "cleanup")
             /\ (job.pc = "fallback" /\ job' # job)
                    => job'.pc = "done" /\ job'.log = Append(job.log, "fallback")]_vars
    /\ [](phase = "done" /\ ~dry_run => vjob["high"].pc = "done")

\* after an idet run that timed out, the keyframe probe of the copied high
\* tier failed as well
C32_Witness ==
    /\ idet = "timeout"
    /\ ~is_interlaced
    /\ phase = "video"
    /\ KeyframeProbeFailed

(***************************************************************************)
(* The pool against the sequential loop                                    *)
(***************************************************************************)
\* the master playlist the sequential loop leaves for the same outputs of the
\* same jobs: its converter has run _try_stream_copy itself
SequentialMaster ==
    [written  |-> TRUE,
     audio    |-> AudioDeclarations(enabled_qualities, aout, nAudio),
     variants |-> VariantEntries(enabled_qualities, vout,
                                 ProducedByValidatedCopy(vjob["high"]), video_info,
                                 nAudio, quality_profiles, best_quality)]

DeclaredGroups(m) == {m.audio[j][2] : j \in 1..Len(m.audio)}

\* C35: every variant entry of the master playlist that carries an
\* AUDIO="audio-<tier>" attribute refers to an audio group for which at least
\* one EXT-X-MEDIA declaration was emitted in the same playlist, for every
\* combination of audio job successes and failures.
C35_AudioGroupsAreDeclared ==
    master.written =>
        \A i \in 1..Len(master.variants) :
            master.variants[i].audio_group
                => master.variants[i].tier \in DeclaredGroups(master)

\* the master playlist of the run that names the same tiers in the order
\* high, medium, low and sees the same outcome of every job
PriorityOrderMaster ==
    [written  |-> TRUE,
     audio    |-> AudioDeclarations(VariantTiers(enabled_qualities), aout, nAudio),
     variants |-> VariantEntries(VariantTiers(enabled_qualities), vout, stream_copy_used,
                                 video_info, nAudio, quality_profiles, best_quality)]

\* C39: for two runs that differ only in the input order of the requested
\* tiers (same source, options and backend outcomes), the master playlists
\* are identical, audio group declarations included.
C39_MasterIndependentOfInputOrder ==
    master.written => master = PriorityOrderMaster

(***************************************************************************)
(* The planned bitrates along the ladder                                   *)
(***************************************************************************)
\* the BANDWIDTH create_master_playlist writes for a re-encoded tier
EncodedBandwidth(t) ==
    TotalBandwidth(t, FALSE, video_info, quality_profiles, best_quality)

\* C36: for every source height and quality mode, the planned video bitrates
\* are non-increasing along the tier order (high >= medium >= low), so for
\* re-encoded tiers the master playlist never advertises a lower tier with a
\* higher BANDWIDTH than a higher tier.
C36_BitratesNonIncreasing ==
    Probed =>
        /\ PlannedBitrate("high") >= PlannedBitrate("medium")
        /\ PlannedBitrate("medium") >= PlannedBitrate("low")
        /\ EncodedBandwidth("high") >= EncodedBandwidth("medium")
        /\ EncodedBandwidth("medium") >= EncodedBandwidth("low")

(***************************************************************************)
(* Files of an earlier run                                                 *)
(***************************************************************************)
\* the video job of tier t has run a backend in this run
VideoJobRan(t) == vjob[t].log # <<>>

\* the audio job of pair p has run its backend in this run
AudioJobRan(p) == ajob[p].calls > 0

\* C37: in a non-dry run that passes the pre-flight checks, no .m3u8 or .ts
\* file from before the run remains in the output directory when the first
\* job starts, so every variant and audio entry of the master playlist refers
\* to a playlist written during this run and never to a stale artifact of an
\* earlier run.
C37_NoStaleHlsFiles ==
    (~dry_run /\ phase \in {"subtitles", "video", "audio", "done"}) =>
        /\ \A t \in Tiers : HasFiles(vout[t]) => VideoJobRan(t)
        /\ \A p \in Tracks \X Tiers : aout[p] => AudioJobRan(p)
        /\ master.written =>
               /\ \A i \in 1..Len(master.variants) : VideoJobRan(master.variants[i].tier)
               /\ \A j \in 1..Len(master.audio) : AudioJobRan(master.audio[j])

\* a run over the files of an earlier run (its subtitle files are still
\* there) has written a master playlist with a variant and an audio entry
C37_Witness ==
    /\ ~dry_run
    /\ subtitle_streams = <<>>
    /\ sout[0] = "good"
    /\ master.written
    /\ master.variants # <<>>
    /\ master.audio # <<>>
    /\ \E t \in Tiers : ~HasFiles(vout[t])

(***************************************************************************)
(* What the cleanup of a failed copy deletes                               *)
(***************************************************************************)
\* the paths a step has removed from the output directory
Removed == disk \ disk'

\* C38: the cleanup before the fallback deletes only the high tier's video
\* playlist and video segment files: playlists and segments of the other
\* video tiers, of audio tracks, converted subtitles and the subtitle
\* manifest are left unchanged by it, also while other tiers' jobs run
\* concurrently.
C38_CleanupDeletesOnlyHighVideo ==
    /\ [](\A t \in Tiers : vjob[t].pc = "cleanup" => t = "high")
    /\ [][Removed # {} =>
              /\ vjob["high"].pc = "cleanup" /\ vjob'["high"].pc = "fallback"
              /\ Removed \subseteq HlsPaths(VideoName("high"))
              /\ \A t \in Tiers \ {"high"} : vjob'[t] = vjob[t]
              /\ UNCHANGED <<vout, aout, sout, converted_subtitles, subtitle_manifest>>]_vars
    /\ [][(vjob["high"].pc = "cleanup" /\ vjob'["high"].pc = "fallback") =>
              /\ disk' \cap HlsPaths(VideoName("high")) = {}
              /\ disk' = disk \ HlsPaths(VideoName("high"))]_vars

\* the copy of the high tier has been cleaned up while the files of the
\* medium tier, written by a concurrent job, and a subtitle file are in place
C38_Witness ==
    /\ vjob["high"].pc = "fallback"
    /\ disk \cap HlsPaths(VideoName("high")) = {}
    /\ HlsPaths(VideoName("medium")) \subseteq disk
    /\ \E p \in disk : EndsWith(p, ".vtt")

(***************************************************************************)
(* get_encoder_settings: the choice of the encoder                         *)
(***************************************************************************)
\* the accelerators get_encoder_settings has a branch for
KnownAccelerators == {"nvenc", "qsv", "videotoolbox", "amf", "vaapi"}

\* values of hw_accel: None and the empty string (both false in Python), the
\* known accelerators, the unresolved "auto" and a name that is none of them
HwAccelValues == {"None", ""} \cup KnownAccelerators \cup {"auto", "cuda"}

\* the deepest chain of frames the interpreter allows before it raises
\* RecursionError (sys.getrecursionlimit(), 1000 by default)
RecursionLimit == 3

\* "if not self.hw_accel"
SoftwareSelected(hw) == hw \in {"None", ""}

\* the encoder a branch of get_encoder_settings returns for this value
EncoderName(hw) ==
    CASE SoftwareSelected(hw)  -> "libx264"
      [] hw = "nvenc"          -> "h264_nvenc"
      [] hw = "qsv"            -> "h264_qsv"
      [] hw = "videotoolbox"   -> "h264_videotoolbox"
      [] hw = "amf"            -> "h264_amf"
      [] hw = "vaapi"          -> "h264_vaapi"
      [] OTHER                 -> "none"

\* a source that has been probed, with any value of hw_accel
EncoderInit ==
    /\ enabled_qualities = PriorityOrder
    /\ best_quality \in BOOLEAN
    /\ idet = "progressive"
    /\ hw_accel \in HwAccelValues
    /\ encoder = NotCalled
    /\ \E h \in PlannerHeights :
         stream = Stream(OptionalKeys \ {"bit_rate"}, "h264", "High", 41, "yuv420p",
                         1920, h, 0)
    /\ video_info = ProbeVideoInfo(stream)
    /\ force_reencode = FALSE
    /\ parallel = FALSE
    /\ dry_run = FALSE
    /\ cpus = 1
    /\ preflight = "ok"
    /\ nAudio = 0
    /\ audio_streams = <<>>
    /\ subtitle_streams = <<>>
    /\ sout = [i \in SubTracks |-> "none"]
    /\ partial_on_failure = FALSE
    /\ vout = [t \in Tiers |-> NoOutput]
    /\ aout = [p \in Tracks \X Tiers |-> FALSE]
    /\ spos = 0
    /\ converted_subtitles = <<>>
    /\ subtitle_manifest = NoManifest
    /\ orphans = {}
    /\ disk = {}
    /\ touched = {}
    /\ pipe = IdlePipe
    /\ phase = "video"
    /\ source_is_h264 = TRUE
    /\ can_copy_video = TRUE
    /\ is_interlaced = FALSE
    /\ quality_profiles = QualityLadder(video_info.height, best_quality)
    /\ enabled_resolutions = EnabledResolutions(enabled_qualities, video_info,
                                                quality_profiles)
    /\ stream_copy_used = FALSE
    /\ vjob = [t \in Tiers |-> NewJob]
    /\ vpos = 1
    /\ video_success = TRUE
    /\ ajob = [p \in Tracks \X Tiers |-> [calls |-> 0, result |-> FALSE]]
    /\ apos = 1
    /\ audio_success = TRUE
    /\ master = NoMaster
    /\ result = "none"

\* what the steps of get_encoder_settings leave alone
encoderFrame == <<enabled_qualities, force_reencode, parallel, dry_run, best_quality, cpus,
                  preflight, stream, video_info, nAudio, partial_on_failure,
                  audio_streams, subtitle_streams, idet, hw_accel, probed, subtitled,
                  side, phase, stream_copy_used, vjob, vout, vpos, video_success, ajob,
                  aout, apos, audio_success, master, result>>

\* _normal_encode calls get_encoder_settings(profile) for the profile of a tier
EncoderCalled ==
    /\ encoder.pc = "idle"
    /\ \E t \in Tiers :
         encoder' = [pc |-> "running", depth |-> 1,
                     preset |-> quality_profiles[t].preset,
                     crf |-> quality_profiles[t].crf, name |-> "none"]
    /\ UNCHANGED encoderFrame

\* the software branch or the branch of a known accelerator returns
EncoderReturns ==
    /\ encoder.pc = "running"
    /\ EncoderName(hw_accel) # "none"
    /\ encoder' = [encoder EXCEPT !.pc = "returned", !.name = EncoderName(hw_accel)]
    /\ UNCHANGED encoderFrame

\* no branch matches: the last line calls get_encoder_settings again, with the
\* profile {'preset': 'medium', 'crf': '23', 'use_advanced': False}; self.hw_accel is
\* what it was
EncoderRecurses ==
    /\ encoder.pc = "running"
    /\ EncoderName(hw_accel) = "none"
    /\ encoder.depth < RecursionLimit
    /\ encoder' = [encoder EXCEPT !.depth = @ + 1, !.preset = "medium", !.crf = 23]
    /\ UNCHANGED encoderFrame

\* the interpreter refuses one more frame: RecursionError leaves the call
EncoderOverflows ==
    /\ encoder.pc = "running"
    /\ EncoderName(hw_accel) = "none"
    /\ encoder.depth = RecursionLimit
    /\ encoder' = [encoder EXCEPT !.pc = "raised"]
    /\ UNCHANGED encoderFrame

EncoderNext ==
    \/ EncoderCalled
    \/ EncoderReturns
    \/ EncoderRecurses
    \/ EncoderOverflows

EncoderSpec == EncoderInit /\ [][EncoderNext]_vars

\* C40: get_encoder_settings terminates and returns an encoder for every
\* value of the hardware-accelerator setting, falling back to the software
\* encoder when the value is none of the known accelerators (nvenc, qsv,
\* videotoolbox, amf, vaapi).
C40_EncoderSelectionFallsBack ==
    /\ encoder.pc # "raised"
    /\ (encoder.pc = "returned" /\ hw_accel \notin KnownAccelerators)
           => encoder.name = "libx264"

====
